---------------------------- MODULE Spec2Model ----------------------------
(***************************************************************************)
(* Model of the MH <-> SM exchange engine (mh-sm-plugin-repo):             *)
(*   - src/src/mapping.py            mapping_surface, projections          *)
(*   - src/src/io_mh_sm_exchange.py  inverser_mapping, aggregators         *)
(*   - src/plugin_mh_sm.py           the plugin's own sm_vers_mh_raster    *)
(*                                                                         *)
(* Numbers.  The code computes in IEEE-754 binary64.  The model keeps the  *)
(* structure of that arithmetic (binary significand, round to nearest,     *)
(* ties to even, NaN and +Inf) with a significand of Precision bits        *)
(* instead of 53.  A finite value is a natural number of units, the        *)
(* real 1.0 being Un units; NaN and Inf are two negative codes.            *)
(***************************************************************************)
EXTENDS Integers, Sequences, FiniteSets, TLC

(***************************************************************************)
(* Bounds of the model.                                                    *)
(***************************************************************************)
\* number of bits of the significand of a float of the model
Precision == 8
\* largest number of (triangle, area) pairs of a correspondence given to an
\* aggregator
MaxPaires == 3
\* shape of the raster given to mapping_surface
NbLignes == 2
NbColonnes == 2
\* largest number of triangles of a mesh drawn from the catalogue
MaxTri == 2

(***************************************************************************)
(* Floating point arithmetic (numpy float64, reduced significand).         *)
(***************************************************************************)
RECURSIVE Pow2(_)
Pow2(k) == IF k <= 0 THEN 1 ELSE 2 * Pow2(k - 1)

\* the float 1.0, in units
Un == Pow2(Precision - 1)

\* np.nan
NaN == -1
\* float("inf"), the other value np.isfinite rejects
Inf == -2

\* np.isfinite
isfinite(x) == x >= 0
\* np.isnan
isnan(x) == x = NaN

\* spacing of the floats around n/d: the smallest power of two u with
\* n/d < 2^Precision * u
RECURSIVE Ulp(_, _, _)
Ulp(n, d, u) == IF n < Pow2(Precision) * d * u THEN u ELSE Ulp(n, d, 2 * u)

\* n/d rounded to the nearest integer, ties to even (n >= 0, d > 0)
ArrondiPair(n, d) ==
    LET q == n \div d
        r == n % d
    IN  IF 2 * r < d THEN q
        ELSE IF 2 * r > d THEN q + 1
        ELSE IF q % 2 = 0 THEN q ELSE q + 1

\* the float nearest to the rational n/d units
Arrondi(n, d) == LET u == Ulp(n, d, 1) IN u * ArrondiPair(n, d * u)

\* float multiplication a * b
FMul(a, b) ==
    IF a = NaN \/ b = NaN THEN NaN
    ELSE IF a = Inf \/ b = Inf THEN (IF a = 0 \/ b = 0 THEN NaN ELSE Inf)
    ELSE Arrondi(a * b, Un)

\* float addition a + b
FAdd(a, b) ==
    IF a = NaN \/ b = NaN THEN NaN
    ELSE IF a = Inf \/ b = Inf THEN Inf
    ELSE Arrondi(a + b, 1)

\* float division a / b
FDiv(a, b) ==
    IF a = NaN \/ b = NaN THEN NaN
    ELSE IF a = Inf THEN (IF b = Inf THEN NaN ELSE Inf)
    ELSE IF b = Inf THEN 0
    ELSE IF b = 0 THEN (IF a = 0 THEN NaN ELSE Inf)
    ELSE Arrondi(a * Un, b)

\* mutant of np_sum: the last term alone
np_sum_dernier(s) == IF s = << >> THEN 0 ELSE s[Len(s)]

\* np.sum of a short array: left to right from 0.0
RECURSIVE np_sum(_)
np_sum(s) == IF s = << >> THEN 0
             ELSE FAdd(np_sum(SubSeq(s, 1, Len(s) - 1)), s[Len(s)])

\* np.mean of a non-empty array: np.sum / len
np_mean(s) == FDiv(np_sum(s), Len(s) * Un)


\* NODATA_MH = 9999.0
NODATA_MH == Arrondi(9999 * Un, 1)

\* nodata=None: not a float
Aucun == -3

\* the float comparison x > 0.0 (False on NaN)
positif(x) == x = Inf \/ x > 0

\* a result not computed yet, or not returned
Rien == << >>

(***************************************************************************)
(* Dictionaries.  A Python dict is a function whose DOMAIN is its key set; *)
(* a pixel -> list dictionary is iterated in row-major order of its keys   *)
(* (the insertion order of the dictionaries given to the aggregators).     *)
(***************************************************************************)
AvantCle(a, b) == a[1] < b[1] \/ (a[1] = b[1] /\ a[2] < b[2])

\* dict.items(): the keys of the set K in iteration order
RECURSIVE items(_)
items(K) ==
    IF K = {} THEN << >>
    ELSE LET a == CHOOSE x \in K : \A y \in K \ {x} : AvantCle(x, y)
         IN  <<a>> \o items(K \ {a})

\* the cells (ligne, colonne) of a raster of shape forme = (nb_lignes, nb_colonnes)
Cellules(forme) == (0 .. forme[1] - 1) \X (0 .. forme[2] - 1)

\* [f(s[1]), ..., f(s[n])]
Image(s, f(_)) == [k \in 1 .. Len(s) |-> f(s[k])]

(***************************************************************************)
(* inverser_mapping (io_mh_sm_exchange.py): pixel -> triangles becomes     *)
(* triangle -> pixels.  m is the pixel -> list dictionary.                 *)
(***************************************************************************)
\* mutant of pixels_du_triangle: the area is stored as int(aire)
RECURSIVE pixels_du_triangle_aire_entiere(_, _, _)
pixels_du_triangle_aire_entiere(m, cles, t) ==
    IF cles = << >> THEN << >>
    ELSE LET c   == Head(cles)
             lst == SelectSeq(m[c], LAMBDA e : e[1] = t)
         IN  Image(lst, LAMBDA e : <<c[1], c[2], (e[2] \div Un) * Un>>)
             \o pixels_du_triangle_aire_entiere(m, Tail(cles), t)

\* the (lig, col, aire) entries appended to tri_px[t] while the loop of
\* inverser_mapping walks the pixels cles of m
RECURSIVE pixels_du_triangle(_, _, _)
pixels_du_triangle(m, cles, t) ==
    IF cles = << >> THEN << >>
    ELSE LET c   == Head(cles)
             lst == SelectSeq(m[c], LAMBDA e : e[1] = t)
         IN  Image(lst, LAMBDA e : <<c[1], c[2], e[2]>>)
             \o pixels_du_triangle(m, Tail(cles), t)

\* the triangle ids met in the lists of m
Ids(m) == UNION {{m[c][k][1] : k \in DOMAIN m[c]} : c \in DOMAIN m}

\* mutant of inverser_mapping: the loop over range(nb_triangles) is missing
inverser_mapping_sans_remplissage(m, nb_triangles) ==
    [t \in Ids(m) |-> pixels_du_triangle(m, items(DOMAIN m), t)]

inverser_mapping(m, nb_triangles) ==
    [t \in Ids(m) \cup (0 .. nb_triangles - 1) |->
        pixels_du_triangle(m, items(DOMAIN m), t)]

(***************************************************************************)
(* moyenne_pixels_par_triangle (io_mh_sm_exchange.py): one value per       *)
(* triangle from the cells of its list.  r is the raster, tp the           *)
(* triangle -> pixels dictionary.                                          *)
(***************************************************************************)
\* mutant of pixels_finis: the test is np.isnan, an infinite cell passes
pixels_non_nan(r, pixels) ==
    SelectSeq(pixels, LAMBDA p : ~isnan(r[<<p[1], p[2]>>]))

\* the pairs of a triangle that pass "if not np.isfinite(v): continue"
pixels_finis(r, pixels) ==
    SelectSeq(pixels, LAMBDA p : isfinite(r[<<p[1], p[2]>>]))

\* mutant of valeur_triangle: the weighted sum is divided by the number of
\* cells, not by the sum of the weights
valeur_triangle_div_n(r, pixels, pondere, rempl) ==
    LET gardes == SelectSeq(pixels, LAMBDA p : isfinite(r[<<p[1], p[2]>>]))
        vals   == Image(gardes, LAMBDA p : r[<<p[1], p[2]>>])
        poids  == Image(gardes, LAMBDA p : p[3])
    IN  IF pixels = << >> THEN rempl
        ELSE IF vals = << >> THEN rempl
        ELSE IF pondere
             THEN IF positif(np_sum(poids))
                  THEN np_mean([k \in 1 .. Len(vals) |-> FMul(vals[k], poids[k])])
                  ELSE rempl
             ELSE np_mean(vals)

\* mutant of valeur_triangle: pondere is ignored, the mean is always unweighted
valeur_triangle_sans_poids(r, pixels, pondere, rempl) ==
    LET gardes == SelectSeq(pixels, LAMBDA p : isfinite(r[<<p[1], p[2]>>]))
        vals   == Image(gardes, LAMBDA p : r[<<p[1], p[2]>>])
    IN  IF pixels = << >> THEN rempl
        ELSE IF vals = << >> THEN rempl
        ELSE np_mean(vals)

\* mutant of valeur_triangle: weights that sum to 0 fall back to the
\* unweighted mean
valeur_triangle_repli(r, pixels, pondere, rempl) ==
    LET gardes == SelectSeq(pixels, LAMBDA p : isfinite(r[<<p[1], p[2]>>]))
        vals   == Image(gardes, LAMBDA p : r[<<p[1], p[2]>>])
        poids  == Image(gardes, LAMBDA p : p[3])
    IN  IF pixels = << >> THEN rempl
        ELSE IF vals = << >> THEN rempl
        ELSE IF pondere /\ positif(np_sum(poids))
             THEN FDiv(np_sum([k \in 1 .. Len(vals) |-> FMul(vals[k], poids[k])]),
                       np_sum(poids))
             ELSE np_mean(vals)

\* the value the loop body leaves in val_tri[id_tri]
valeur_triangle(r, pixels, pondere, rempl) ==
    LET gardes == pixels_finis(r, pixels)
        vals   == Image(gardes, LAMBDA p : r[<<p[1], p[2]>>])
        poids  == Image(gardes, LAMBDA p : p[3])
    IN  IF pixels = << >> THEN rempl
        ELSE IF vals = << >> THEN rempl
        ELSE IF pondere
             THEN IF positif(np_sum(poids))
                  THEN FDiv(np_sum([k \in 1 .. Len(vals) |-> FMul(vals[k], poids[k])]),
                            np_sum(poids))
                  ELSE rempl
             ELSE np_mean(vals)

moyenne_pixels_par_triangle(r, tp, pondere, rempl) ==
    [id \in 0 .. Cardinality(DOMAIN tp) - 1 |->
        IF id \in DOMAIN tp THEN valeur_triangle(r, tp[id], pondere, rempl)
        ELSE rempl]

(***************************************************************************)
(* sm_vers_mh_raster (io_mh_sm_exchange.py), from the correspondence m and *)
(* the values v read from the .val file to the reconstructed raster.       *)
(***************************************************************************)
\* the sum in place of the mean, and of the weighted mean
valeur_pixel_somme(lst, v, pondere) ==
    IF lst = << >> THEN NaN
    ELSE IF ~pondere
         THEN np_sum(Image(lst, LAMBDA e : v[e[1]]))
         ELSE np_sum(Image(SelectSeq(lst, LAMBDA e : e[2] > 0 /\ isfinite(v[e[1]])),
                           LAMBDA e : FMul(v[e[1]], e[2])))

\* the value the loop body leaves in ras_rec[lig, col] (NaN when untouched)
valeur_pixel(lst, v, pondere) ==
    IF lst = << >> THEN NaN
    ELSE IF ~pondere
         THEN np_mean(Image(lst, LAMBDA e : v[e[1]]))
         ELSE LET gardes == SelectSeq(lst, LAMBDA e : e[2] > 0 /\ isfinite(v[e[1]]))
                  num    == np_sum(Image(gardes, LAMBDA e : FMul(v[e[1]], e[2])))
                  den    == np_sum(Image(gardes, LAMBDA e : e[2]))
              IN  IF positif(den) THEN FDiv(num, den) ELSE NaN

sm_vers_mh_raster(m, v, forme, pondere) ==
    [c \in Cellules(forme) |->
        IF c \in DOMAIN m THEN valeur_pixel(m[c], v, pondere) ELSE NaN]

\* the triangle ids whose value the loop of sm_vers_mh_raster reads: all of them
\* in unweighted mode, those of positive area in weighted mode
ids_lus(m, pondere) ==
    UNION {{m[c][k][1] : k \in {j \in DOMAIN m[c] : ~pondere \/ m[c][j][2] > 0}} : c \in DOMAIN m}

\* the exception val_tri[int(id_tri)] raises in sm_vers_mh_raster when the
\* array v is too short for an id read
erreur_sm_vers_mh_raster(m, v, pondere) ==
    IF \E id \in ids_lus(m, pondere) : id \notin DOMAIN v THEN "IndexError" ELSE ""

(***************************************************************************)
(* sm_vers_mh_raster (plugin_mh_sm.py): the plugin's own reconstruction,   *)
(* unweighted.                                                             *)
(***************************************************************************)
\* the plugin's cell as if it kept the finite values only
plugin_valeur_pixel_finis(lst, v) ==
    LET gardes == SelectSeq(lst, LAMBDA e : e[1] \in DOMAIN v /\ isfinite(v[e[1]]))
        vals   == Image(gardes, LAMBDA e : v[e[1]])
    IN  IF lst = << >> THEN NaN
        ELSE IF vals # << >> THEN np_mean(vals) ELSE NaN

plugin_valeur_pixel(lst, v) ==
    LET gardes == SelectSeq(lst, LAMBDA e : e[1] \in DOMAIN v)
        vals   == Image(gardes, LAMBDA e : v[e[1]])
    IN  IF lst = << >> THEN NaN
        ELSE IF vals # << >> THEN np_mean(vals) ELSE NaN

plugin_sm_vers_mh_raster(m, v, forme) ==
    [c \in Cellules(forme) |->
        IF c \in DOMAIN m THEN plugin_valeur_pixel(m[c], v) ELSE NaN]

(***************************************************************************)
(* projette_triangles_surface (mapping.py): area-weighted projection.      *)
(***************************************************************************)
projette_valeur_pixel(liste, valeurs, fill) ==
    LET gardes == SelectSeq(liste, LAMBDA e : ~isnan(valeurs[e[1]]))
        num    == np_sum(Image(gardes, LAMBDA e : FMul(valeurs[e[1]], e[2])))
        den    == np_sum(Image(gardes, LAMBDA e : e[2]))
    IN  IF positif(den) THEN FDiv(num, den) ELSE fill

projette_triangles_surface(valeurs, m, forme, fill) ==
    [c \in Cellules(forme) |->
        IF c \in DOMAIN m THEN projette_valeur_pixel(m[c], valeurs, fill) ELSE fill]

(***************************************************************************)
(* mapping_surface (mapping.py).  Coordinates are whole numbers, the cell  *)
(* size Pas a common multiple of every coordinate difference of the mesh:  *)
(* every intersection point and every exact area is then a whole number.   *)
(* shapely returns floats: an area is the exact area rounded to nearest,   *)
(* the smallest error a float result can carry.                            *)
(***************************************************************************)
RECURSIVE PGCD(_, _)
PGCD(a, b) == IF b = 0 THEN a ELSE PGCD(b, a % b)

\* least common multiple of 1 .. n
RECURSIVE PPCM(_)
PPCM(n) == IF n <= 1 THEN 1 ELSE (PPCM(n - 1) * n) \div PGCD(PPCM(n - 1), n)

\* number of cell sizes spanned by the vertices of the meshes: two cells west
\* and north of the raster, one east and south
Etendue == (IF NbLignes > NbColonnes THEN NbLignes ELSE NbColonnes) + 3

\* cell size
Pas == 2 * PPCM(Etendue)

\* shape_raster
Forme == <<NbLignes, NbColonnes>>

\* gt = (x_min, dx, rx, y_max, ry, dy), north up
GT == <<2 * Pas, Pas, 0, (NbLignes + 1) * Pas, 0, 0 - Pas>>

Min(S) == CHOOSE x \in S : \A y \in S : x <= y
Max(S) == CHOOSE x \in S : \A y \in S : x >= y

\* np.floor(n / d) for whole n and d # 0
floor_div(n, d) == IF d > 0 THEN n \div d ELSE (0 - n) \div (0 - d)

\* s[1] \o s[2] \o ...
RECURSIVE Concat(_)
Concat(s) == IF s = << >> THEN << >> ELSE Head(s) \o Concat(Tail(s))

\* twice the signed area of the polygon poly (shoelace)
AireDouble(poly) ==
    LET n == Len(poly)
        suivant(k) == IF k = n THEN 1 ELSE k + 1
        terme(k) == poly[k][1] * poly[suivant(k)][2] - poly[suivant(k)][1] * poly[k][2]
        RECURSIVE somme(_)
        somme(k) == IF k = 0 THEN 0 ELSE somme(k - 1) + terme(k)
    IN  somme(n)

\* the area of the polygon poly, a whole number
AireExacte(poly) ==
    IF Len(poly) < 3 THEN 0
    ELSE LET d == AireDouble(poly) IN (IF d >= 0 THEN d ELSE 0 - d) \div 2

\* shapely: Polygon.area (unsigned), a float: the area rounded to nearest
area(poly) == Arrondi(AireExacte(poly), 1)

\* shapely: Polygon.bounds = (minx, miny, maxx, maxy)
bounds(poly) ==
    <<Min({poly[k][1] : k \in DOMAIN poly}), Min({poly[k][2] : k \in DOMAIN poly}),
      Max({poly[k][1] : k \in DOMAIN poly}), Max({poly[k][2] : k \in DOMAIN poly})>>

\* shapely: box(minx, miny, maxx, maxy)
box(minx, miny, maxx, maxy) == <<minx, miny, maxx, maxy>>

\* the part of the convex polygon poly on the side sens * (p[axe] - borne) >= 0
\* of an axis-parallel line
Coupe(poly, axe, borne, sens) ==
    LET n == Len(poly)
        autre == 3 - axe
        dedans(p) == sens * (p[axe] - borne) >= 0
        croise(p, q) ==
            LET o == p[autre] + ((q[autre] - p[autre]) * (borne - p[axe]))
                                    \div (q[axe] - p[axe])
            IN  IF axe = 1 THEN <<borne, o>> ELSE <<o, borne>>
        morceau(k) ==
            LET q == poly[k]
                p == poly[IF k = 1 THEN n ELSE k - 1]
            IN  IF dedans(q)
                THEN (IF dedans(p) THEN <<q>> ELSE <<croise(p, q), q>>)
                ELSE (IF dedans(p) THEN <<croise(p, q)>> ELSE << >>)
    IN  Concat([k \in 1 .. n |-> morceau(k)])

\* shapely: poly_tri.intersection(poly_pixel), the pixel being a box
intersection(poly_tri, poly_pixel) ==
    Coupe(Coupe(Coupe(Coupe(poly_tri, 1, poly_pixel[1], 1),
                      1, poly_pixel[3], 0 - 1),
                2, poly_pixel[2], 1),
          2, poly_pixel[4], 0 - 1)

\* a box that starts one cell too far west
pixel_decale(ligne, colonne, gt) ==
    box(gt[1] + (colonne - 1) * gt[2], gt[4] + (ligne + 1) * gt[6],
        gt[1] + (colonne + 1) * gt[2], gt[4] + ligne * gt[6])

\* poly_pixel of the cell (ligne, colonne)
pixel(ligne, colonne, gt) ==
    LET px_min == gt[1] + colonne * gt[2]
        px_max == gt[1] + (colonne + 1) * gt[2]
        py_max == gt[4] + ligne * gt[6]
        py_min == gt[4] + (ligne + 1) * gt[6]
    IN  box(px_min, py_min, px_max, py_max)

\* the range of the bounding box, not clipped to the grid
candidats_non_bornes(poly_tri, gt, shape_raster) ==
    LET b == bounds(poly_tri)
        col_min == floor_div(b[1] - gt[1], gt[2])
        col_max == floor_div(b[3] - gt[1], gt[2])
        lig_min == floor_div(b[4] - gt[4], gt[6])
        lig_max == floor_div(b[2] - gt[4], gt[6])
    IN  (lig_min .. lig_max) \X (col_min .. col_max)

\* the cells range(lig_min + 1, lig_max + 1) x range(col_min + 1, col_max + 1)
candidats_sans_premier(poly_tri, gt, shape_raster) ==
    LET b == bounds(poly_tri)
        col_min == Max({floor_div(b[1] - gt[1], gt[2]), 0})
        col_max == Min({floor_div(b[3] - gt[1], gt[2]), shape_raster[2] - 1})
        lig_min == Max({floor_div(b[4] - gt[4], gt[6]), 0})
        lig_max == Min({floor_div(b[2] - gt[4], gt[6]), shape_raster[1] - 1})
    IN  (lig_min + 1 .. lig_max) \X (col_min + 1 .. col_max)

\* the cells range(lig_min, lig_max) x range(col_min, col_max)
candidats_sans_dernier(poly_tri, gt, shape_raster) ==
    LET b == bounds(poly_tri)
        col_min == Max({floor_div(b[1] - gt[1], gt[2]), 0})
        col_max == Min({floor_div(b[3] - gt[1], gt[2]), shape_raster[2] - 1})
        lig_min == Max({floor_div(b[4] - gt[4], gt[6]), 0})
        lig_max == Min({floor_div(b[2] - gt[4], gt[6]), shape_raster[1] - 1})
    IN  (lig_min .. lig_max - 1) \X (col_min .. col_max - 1)

\* the cells range(lig_min, lig_max + 1) x range(col_min, col_max + 1) visited
\* for the triangle poly_tri
candidats(poly_tri, gt, shape_raster) ==
    LET b == bounds(poly_tri)
        col_min == Max({floor_div(b[1] - gt[1], gt[2]), 0})
        col_max == Min({floor_div(b[3] - gt[1], gt[2]), shape_raster[2] - 1})
        lig_min == Max({floor_div(b[4] - gt[4], gt[6]), 0})
        lig_max == Min({floor_div(b[2] - gt[4], gt[6]), shape_raster[1] - 1})
    IN  (lig_min .. lig_max) \X (col_min .. col_max)

\* every visited cell, whatever the area shared
retenus_sans_seuil(poly_tri, gt, shape_raster) == candidats(poly_tri, gt, shape_raster)

\* the cells for which the loop body reaches mapping.setdefault(...).append(...)
\* for the triangle poly_tri
retenus(poly_tri, gt, shape_raster) ==
    {c \in candidats(poly_tri, gt, shape_raster) :
        area(intersection(poly_tri, pixel(c[1], c[2], gt))) > 0}

\* the dictionary after the iteration id_tri of the loop over the triangles
iteration(mp, id_tri, poly_tri, gt, shape_raster) ==
    IF area(poly_tri) <= 0 THEN mp
    ELSE LET R == retenus(poly_tri, gt, shape_raster)
         IN  [c \in DOMAIN mp \cup R |->
                 (IF c \in DOMAIN mp THEN mp[c] ELSE << >>)
                 \o (IF c \in R
                     THEN <<<<id_tri, area(intersection(poly_tri, pixel(c[1], c[2], gt)))>>>>
                     ELSE << >>)]

\* mutant of boucle: a triangle is numbered by its rank among the triangles
\* kept, the skipped ones not counting
RECURSIVE boucle_renumerotee(_, _, _, _)
boucle_renumerotee(tris, n, gt, shape_raster) ==
    IF n = 0 THEN << >>
    ELSE iteration(boucle_renumerotee(tris, n - 1, gt, shape_raster),
                   Cardinality({k \in 1 .. n - 1 : area(tris[k]) > 0}),
                   tris[n], gt, shape_raster)

\* the dictionary after the triangles tris[1 .. n], ids 0 .. n - 1
RECURSIVE boucle(_, _, _, _)
boucle(tris, n, gt, shape_raster) ==
    IF n = 0 THEN << >>
    ELSE iteration(boucle(tris, n - 1, gt, shape_raster), n - 1, tris[n], gt, shape_raster)

\* tris[k] holds points[triangles[k - 1]], the XY of the three vertices
mapping_surface(tris, gt, shape_raster) == boucle(tris, Len(tris), gt, shape_raster)

(***************************************************************************)
(* mapping_barycentre (mapping.py).  The vertices are whole multiples of   *)
(* Pas, a multiple of 3: the barycentre of a triangle is a whole number    *)
(* and the float quotients below are those of whole numbers.               *)
(***************************************************************************)
\* int(n / d): the quotient with its fraction dropped, towards zero
int_tronque(n, d) ==
    LET an == IF n >= 0 THEN n ELSE 0 - n
        ad == IF d >= 0 THEN d ELSE 0 - d
    IN  IF (n >= 0) = (d > 0) THEN an \div ad ELSE 0 - (an \div ad)

\* (ligne, colonne) of the world point (x, y)
xy_vers_pixel(x, y, gt) ==
    <<int_tronque(y - gt[4], gt[6]), int_tronque(x - gt[1], gt[2])>>

\* triangles_xy.mean(axis=1), for one triangle
barycentre(poly_tri) ==
    <<(poly_tri[1][1] + poly_tri[2][1] + poly_tri[3][1]) \div 3,
      (poly_tri[1][2] + poly_tri[2][2] + poly_tri[3][2]) \div 3>>

\* the dictionary pixel -> [id_triangle, ...] mapping_barycentre returns
mapping_barycentre(tris, gt, shape_raster) ==
    LET cellule(id_tri) ==
            xy_vers_pixel(barycentre(tris[id_tri + 1])[1], barycentre(tris[id_tri + 1])[2], gt)
        garde(id_tri) ==
            /\ 0 <= cellule(id_tri)[1] /\ cellule(id_tri)[1] < shape_raster[1]
            /\ 0 <= cellule(id_tri)[2] /\ cellule(id_tri)[2] < shape_raster[2]
        ids == [k \in 1 .. Len(tris) |-> k - 1]
        cles == {cellule(k - 1) : k \in {j \in 1 .. Len(tris) : garde(j - 1)}}
    IN  [c \in cles |-> SelectSeq(ids, LAMBDA id_tri : garde(id_tri) /\ cellule(id_tri) = c)]

(***************************************************************************)
(* The .val text format (io_mh_sm_exchange.py: ecrire_val, lire_val).      *)
(* A file is the sequence of its non-empty lines; a line is modelled by    *)
(* its tokens: the header, a facet line "f<i> <nb>", a value line holding  *)
(* a decimal number with two digits after the point, kept as a whole       *)
(* number of hundredths.                                                   *)
(***************************************************************************)
\* f"{nb_facettes} {nb_facettes}\t {vmin:.2f} {vmax:.2f}"
LigneEntete(nb_facettes, vmin, vmax) == <<"entete", nb_facettes, vmin, vmax>>
\* f"f{i} {int(nb_tri)}"
LigneFacette(i, nb_tri) == <<"f", i, nb_tri>>
\* f"\t{v:.2f}", c the hundredths
LigneValeur(c) == <<"v", c>>

\* f"{v:.2f}" of a finite float v: the nearest number of hundredths
format_2f(v) == ArrondiPair(v * 100, Un)

\* float(texte) of a decimal text of c hundredths
float_de_centiemes(c) == Arrondi(c * Un, 100)

\* the writing loop as if k restarted at 0 with every facet
RECURSIVE ecrire_facettes_sans_avance(_, _, _, _)
ecrire_facettes_sans_avance(tailles, i, v, k) ==
    IF i > Len(tailles) THEN [lignes |-> << >>, erreur |-> ""]
    ELSE LET nb_tri == tailles[i]
             n      == Cardinality(DOMAIN v)
             ecrits == IF nb_tri <= n THEN nb_tri ELSE n
             bloc   == <<LigneFacette(i, nb_tri)>>
                       \o [j \in 1 .. ecrits |->
                              LigneValeur(format_2f(IF isfinite(v[j - 1])
                                                    THEN v[j - 1] ELSE 0))]
         IN  IF ecrits < nb_tri
             THEN [lignes |-> bloc, erreur |-> "IndexError"]
             ELSE LET suite == ecrire_facettes_sans_avance(tailles, i + 1, v, 0)
                  IN  [lignes |-> bloc \o suite.lignes, erreur |-> suite.erreur]

\* the lines written from the facet i on, k values being written already, and
\* the exception raised
RECURSIVE ecrire_facettes(_, _, _, _)
ecrire_facettes(tailles, i, v, k) ==
    IF i > Len(tailles) THEN [lignes |-> << >>, erreur |-> ""]
    ELSE LET nb_tri == tailles[i]
             n      == Cardinality(DOMAIN v)
             ecrits == IF k + nb_tri <= n THEN nb_tri ELSE n - k
             bloc   == <<LigneFacette(i, nb_tri)>>
                       \o [j \in 1 .. ecrits |->
                              LigneValeur(format_2f(IF isfinite(v[k + j - 1])
                                                    THEN v[k + j - 1] ELSE 0))]
         IN  IF ecrits < nb_tri
             THEN [lignes |-> bloc, erreur |-> "IndexError"]
             ELSE LET suite == ecrire_facettes(tailles, i + 1, v, k + nb_tri)
                  IN  [lignes |-> bloc \o suite.lignes, erreur |-> suite.erreur]

\* the file ecrire_val leaves and the exception it raises; v is val_tri, an
\* array indexed from 0
ecrire_val(tailles, v) ==
    LET fini == {v[k] : k \in DOMAIN v} \cap Nat
        vmin == IF fini = {} THEN 0 ELSE Min(fini)
        vmax == IF fini = {} THEN 0 ELSE Max(fini)
        r    == ecrire_facettes(tailles, 1, v, 0)
    IN  [lignes |-> <<LigneEntete(Len(tailles), format_2f(vmin), format_2f(vmax))>> \o r.lignes,
         erreur |-> r.erreur]

\* float(lignes[i].split()[0]): the value of the first token of a line, or the
\* exception
premier_flottant(ligne) ==
    IF ligne[1] = "v" THEN [valeur |-> float_de_centiemes(ligne[2]), erreur |-> ""]
    ELSE IF ligne[1] = "entete" THEN [valeur |-> Arrondi(ligne[2] * Un, 1), erreur |-> ""]
    ELSE [valeur |-> NaN, erreur |-> "ValueError"]

\* io_mh_sm_exchange.lire_val from the line i (counted from 1): the while loop
\* and, within a facet, the for loop with reste values to read
RECURSIVE lire_val_boucle(_, _, _)
RECURSIVE lire_val_bloc(_, _, _, _)
lire_val_boucle(lignes, i, valeurs) ==
    IF i > Len(lignes) THEN [valeurs |-> valeurs, erreur |-> ""]
    ELSE IF lignes[i][1] = "f"
         THEN lire_val_bloc(lignes, i + 1, lignes[i][3], valeurs)
         ELSE lire_val_boucle(lignes, i + 1, valeurs)

lire_val_bloc(lignes, i, reste, valeurs) ==
    IF reste = 0 THEN lire_val_boucle(lignes, i, valeurs)
    ELSE IF i > Len(lignes) THEN [valeurs |-> Rien, erreur |-> "IndexError"]
    ELSE LET r == premier_flottant(lignes[i])
         IN  IF r.erreur # "" THEN [valeurs |-> Rien, erreur |-> r.erreur]
             ELSE lire_val_bloc(lignes, i + 1, reste - 1, Append(valeurs, r.valeur))

\* the array lire_val returns, or the exception it raises
lire_val(lignes) ==
    IF lignes = << >> THEN [valeurs |-> << >>, erreur |-> ""]
    ELSE lire_val_boucle(lignes, 2, << >>)

(***************************************************************************)
(* verif_val.lire_val: the other reader of the .val format; it returns the *)
(* sizes of the facets with the values.                                    *)
(***************************************************************************)
RECURSIVE verif_lire_val_boucle(_, _, _, _)
RECURSIVE verif_lire_val_bloc(_, _, _, _, _)
verif_lire_val_boucle(lignes, index, tailles, valeurs) ==
    IF index > Len(lignes) THEN [tailles |-> tailles, valeurs |-> valeurs, erreur |-> ""]
    ELSE IF lignes[index][1] = "f"
         THEN verif_lire_val_bloc(lignes, index + 1, lignes[index][3],
                                  Append(tailles, lignes[index][3]), valeurs)
         ELSE verif_lire_val_boucle(lignes, index + 1, tailles, valeurs)

verif_lire_val_bloc(lignes, index, reste, tailles, valeurs) ==
    IF reste = 0 \/ index > Len(lignes)
    THEN verif_lire_val_boucle(lignes, index, tailles, valeurs)
    ELSE LET r == premier_flottant(lignes[index])
         IN  IF r.erreur # "" THEN [tailles |-> Rien, valeurs |-> Rien, erreur |-> r.erreur]
             ELSE verif_lire_val_bloc(lignes, index + 1, reste - 1, tailles,
                                      Append(valeurs, r.valeur))

\* the pair verif_val.lire_val returns, or the exception it raises
verif_lire_val(lignes) ==
    IF lignes = << >> THEN [tailles |-> << >>, valeurs |-> << >>, erreur |-> ""]
    ELSE verif_lire_val_boucle(lignes, 2, << >>, << >>)

(***************************************************************************)
(* The scene_triangle.cir format (io_mh_sm_exchange.py:                    *)
(* lire_scene_triangle_cir).  Lines: a facet line "f<X> <N>", a line of    *)
(* three numbers (the normal of a facet, a point), a block line "c<Y>", a  *)
(* line holding the whole number of points of a block, any other text.     *)
(***************************************************************************)
\* "f<X> <N>"
CirFacette(X, N) == <<"f", X, N>>
\* three numbers; p names the point (0: the normal of a facet)
CirXYZ(p) == <<"xyz", p>>
\* "c<Y>"
CirBloc(Y) == <<"c", Y>>
\* a whole number alone on its line
CirNombre(n) == <<"n", n>>
\* a line that is none of these
CirTexte == <<"txt">>

\* the points read by the for loop of a block from the line i on, at most
\* reste lines: the coordinates kept and the line reached
RECURSIVE cir_points(_, _, _, _)
cir_points(lignes, i, reste, coords) ==
    IF reste = 0 \/ i > Len(lignes) THEN [coords |-> coords, i |-> i]
    ELSE cir_points(lignes, i + 1, reste - 1,
                    IF lignes[i][1] = "xyz" THEN Append(coords, lignes[i][2]) ELSE coords)

\* the while loop from the line i on (counted from 1)
RECURSIVE cir_boucle(_, _, _, _, _, _, _)
cir_boucle(lignes, i, tailles, tri, dans_facette, nb_attendu, nb_lu) ==
    IF i > Len(lignes) THEN [tailles |-> tailles, tri |-> tri, erreur |-> ""]
    ELSE IF lignes[i][1] = "f"
    THEN cir_boucle(lignes,
                    IF i + 1 <= Len(lignes) /\ lignes[i + 1][1] = "xyz" THEN i + 2 ELSE i + 1,
                    Append(tailles, lignes[i][3]), tri, TRUE, lignes[i][3], 0)
    ELSE IF dans_facette /\ lignes[i][1] = "c"
    THEN IF i + 1 > Len(lignes) THEN [tailles |-> tailles, tri |-> tri, erreur |-> ""]
         ELSE IF lignes[i + 1][1] # "n"
         THEN cir_boucle(lignes, i + 1, tailles, tri, dans_facette, nb_attendu, nb_lu)
         ELSE LET r     == cir_points(lignes, i + 2, lignes[i + 1][2], << >>)
                  garde == Len(r.coords) >= 3
                  tri2  == IF garde THEN Append(tri, SubSeq(r.coords, 1, 3)) ELSE tri
                  lu2   == IF garde THEN nb_lu + 1 ELSE nb_lu
              IN  IF lu2 >= nb_attendu
                  THEN cir_boucle(lignes, r.i, tailles, tri2, FALSE, 0, lu2)
                  ELSE cir_boucle(lignes, r.i, tailles, tri2, TRUE, nb_attendu, lu2)
    ELSE cir_boucle(lignes, i + 1, tailles, tri, dans_facette, nb_attendu, nb_lu)

\* what lire_scene_triangle_cir returns: the sizes of the facets and the
\* triangles (each the names of its three points); it raises nothing on the
\* lines of the model
lire_scene_triangle_cir(lignes) == cir_boucle(lignes, 1, << >>, << >>, FALSE, 0, 0)

(***************************************************************************)
(* lire_mh_ascii (io_mh_sm_exchange.py).  An ESRI ASCII grid is the pair   *)
(* of its NODATA_value (Aucun: the header has none) and of its cell        *)
(* values in reading order, every number written in hundredths.            *)
(***************************************************************************)
\* mutant of masque_nodata: only the NODATA_value of the file is replaced
masque_nodata_fichier_seul(v, nodata_fichier, nodata) ==
    IF v = nodata_fichier THEN NaN ELSE v

\* ras[ras == nodata_fichier] = np.nan ; ras[ras == nodata] = np.nan, on a cell
masque_nodata(v, nodata_fichier, nodata) ==
    IF v = nodata_fichier THEN NaN
    ELSE IF v = nodata THEN NaN
    ELSE v

\* np.array(vals).reshape(forme): the cell (lig, col) holds the value of rank
\* lig * nb_colonnes + col
reshape(vals, forme) == [c \in Cellules(forme) |-> vals[c[1] * forme[2] + c[2] + 1]]

\* the raster lire_mh_ascii returns
lire_mh_ascii(f, forme) ==
    LET nodata_fichier == IF f[1] = Aucun THEN NODATA_MH ELSE float_de_centiemes(f[1])
        nodata == NODATA_MH
        vals   == [k \in 1 .. Len(f[2]) |-> float_de_centiemes(f[2][k])]
        brut   == reshape(vals, forme)
    IN  [c \in Cellules(forme) |-> masque_nodata(brut[c], nodata_fichier, nodata)]

(***************************************************************************)
(* Bilinear sampling (projection.py).  A raster is a function on its       *)
(* cells; x, y and the entries of gt are floats, dy alone being negative   *)
(* (kept as a whole number below zero).                                    *)
(***************************************************************************)
\* float subtraction a - b of finite a >= b
FSub(a, b) == Arrondi(a - b, 1)

\* the two tests on the four neighbours: none is nodata, none is NaN
_echant_bilineaire_valide(vals, nodata) ==
    /\ ~(nodata # Aucun /\ \E k \in 1 .. 4 : vals[k] = nodata)
    /\ ~(\E k \in 1 .. 4 : isnan(vals[k]))

\* col_f, or row_f: (x - x0) / dx for x >= x0
indice_flottant(x, x0, dx) == FDiv(FSub(x, x0), dx)

\* int(np.floor(f)) for a float f >= 0
plancher(f) == f \div Un

\* the weighted sum of the four neighbours
interpolation(vals, poids_col, poids_lig) ==
    LET t00 == FMul(FMul(vals[1], FSub(Un, poids_col)), FSub(Un, poids_lig))
        t01 == FMul(FMul(vals[2], poids_col), FSub(Un, poids_lig))
        t10 == FMul(FMul(vals[3], FSub(Un, poids_col)), poids_lig)
        t11 == FMul(FMul(vals[4], poids_col), poids_lig)
    IN  FAdd(FAdd(FAdd(t00, t01), t10), t11)

\* _echant_bilineaire(raster, x, y, gt, nodata, fill); forme is raster.shape.
\* West of x0, or north of y0, the float index is below zero and so is its
\* floor.
_echant_bilineaire(raster, forme, x, y, gt, nodata, fill) ==
    IF x < gt[1] \/ y > gt[4] THEN fill
    ELSE LET col_f == indice_flottant(x, gt[1], gt[2])
             row_f == indice_flottant(gt[4], y, 0 - gt[6])
             c0    == plancher(col_f)
             r0    == plancher(row_f)
             c1    == c0 + 1
             r1    == r0 + 1
         IN  IF r1 >= forme[1] \/ c1 >= forme[2] THEN fill
             ELSE LET poids_col == FSub(col_f, c0 * Un)
                      poids_lig == FSub(row_f, r0 * Un)
                      vals == <<raster[<<r0, c0>>], raster[<<r0, c1>>],
                                raster[<<r1, c0>>], raster[<<r1, c1>>]>>
                  IN  IF ~_echant_bilineaire_valide(vals, nodata) THEN fill
                      ELSE interpolation(vals, poids_col, poids_lig)

(***************************************************************************)
(* mh_vers_tri_multisample (projection.py).  A triangle is the triple of   *)
(* the XY of its vertices, floats.                                         *)
(***************************************************************************)
\* the barycentric weights of a plan
poids(p) ==
    LET tiers == FDiv(Un, 3 * Un)
        w60   == Arrondi(60 * Un, 100)
        w20   == Arrondi(20 * Un, 100)
        w50   == Arrondi(50 * Un, 100)
        quatre == <<<<tiers, tiers, tiers>>, <<w60, w20, w20>>, <<w20, w60, w20>>,
                    <<w20, w20, w60>>>>
    IN  IF p = "4pt" THEN quatre
        ELSE quatre \o <<<<w50, w50, 0>>, <<w50, 0, w50>>, <<0, w50, w50>>>>

\* p = wa * a + wb * b + wc * c
point_pondere(w, tri) ==
    <<FAdd(FAdd(FMul(w[1], tri[1][1]), FMul(w[2], tri[2][1])), FMul(w[3], tri[3][1])),
      FAdd(FAdd(FMul(w[1], tri[1][2]), FMul(w[2], tri[2][2])), FMul(w[3], tri[3][2]))>>

\* the list echantillons of a triangle
echantillons(raster, forme, tri, gt, nd, p) ==
    Image(poids(p), LAMBDA w : _echant_bilineaire(raster, forme, point_pondere(w, tri)[1],
                                                  point_pondere(w, tri)[2], gt, nd, NaN))

\* mutant of valides: the samples that are not NaN
valides_non_nan(ech) == SelectSeq(ech, LAMBDA v : ~isnan(v))

\* echantillons[np.isfinite(echantillons)]
valides(ech) == SelectSeq(ech, LAMBDA v : isfinite(v))

\* the array mh_vers_tri_multisample returns
mh_vers_tri_multisample(raster, forme, tris, gt, nd, f, p) ==
    [id_triangle \in 0 .. Len(tris) - 1 |->
        LET v == valides(echantillons(raster, forme, tris[id_triangle + 1], gt, nd, p))
        IN  IF v # << >> THEN np_mean(v) ELSE f]

(***************************************************************************)
(* State.  The functions above are pure; the state records the arguments   *)
(* and the results of the calls made so far.                               *)
(***************************************************************************)
VARIABLES
    appel,            \* the function called last ("init": none yet)
    tris,             \* points[triangles]: the XY of the vertices of each triangle
    map_px,           \* pixel -> [(id_triangle, aire)], as mapping_surface returns it
    nb_triangles,     \* len(tri) of the mesh
    tri_px,           \* inverser_mapping(map_px, nb_triangles)
    ras,              \* the MH raster given to moyenne_pixels_par_triangle
    val_simple,       \* moyenne_pixels_par_triangle(..., pondere=False)
    val_pondere,      \* moyenne_pixels_par_triangle(..., pondere=True)
    val_tri,          \* the values per triangle given to the SM -> MH functions
    ras_rec_simple,   \* io sm_vers_mh_raster(..., pondere=False)
    ras_rec_pondere,  \* io sm_vers_mh_raster(..., pondere=True)
    ras_rec_plugin,   \* plugin sm_vers_mh_raster
    raster_proj,      \* projette_triangles_surface
    tailles_facettes, \* number of triangles of each facet, in the order of the .cir
    fichier,          \* the lines of the text file written or given to a reader
    relu,             \* what the reader returned
    erreur,           \* the exception the last call raised ("": none)
    point,            \* the world point (x, y) given to _echant_bilineaire
    nodata,           \* the nodata argument of the sampling functions
    fill,             \* the fill argument of the sampling functions
    plan,             \* the plan argument of mh_vers_tri_multisample
    echantillon,      \* what _echant_bilineaire returned
    val_multi,        \* what mh_vers_tri_multisample returned
    err,              \* what carte_erreur returned
    tri_vers_pixel,   \* what inverse_mapping returned
    mapping_pixel,    \* the dictionary given to inverse_mapping, as the sequence of
                      \* its items (pixel, list of triangle ids) in iteration order
    iter,             \* the locals of a reader between two iterations of its main loop
    geotransform,     \* the gt given to ecrire_mh_ascii
    en_attente        \* for each triangle, the entries its worker has yet to append

\* the state of the file exchanges
varsFichier == <<tailles_facettes, fichier, relu, erreur>>

\* the state of the mapping and of the aggregations, val_tri apart
varsCalcul == <<tris, map_px, nb_triangles, tri_px, ras, val_simple, val_pondere,
                ras_rec_simple, ras_rec_pondere, ras_rec_plugin, raster_proj>>

\* what the mapping and the aggregations leave alone
HorsCalcul == <<varsFichier, point, nodata, fill, plan, echantillon, val_multi, err,
                tri_vers_pixel, mapping_pixel, iter, geotransform, en_attente>>

\* the state of the point sampling, the raster and the mesh apart
varsEchant == <<point, nodata, fill, plan, echantillon, val_multi>>

\* the results of the other functions of the plugin
varsSuite == <<err, tri_vers_pixel, mapping_pixel, iter, geotransform, en_attente>>

\* none of them called yet
SansSuite ==
    /\ err = Rien
    /\ tri_vers_pixel = Rien
    /\ mapping_pixel = Rien
    /\ iter = Rien
    /\ geotransform = Rien
    /\ en_attente = Rien

vars == <<appel, val_tri, varsCalcul, varsFichier, varsEchant, varsSuite>>

\* no file exchange takes place
SansFichier ==
    /\ tailles_facettes = Rien
    /\ fichier = Rien
    /\ relu = Rien
    /\ erreur = ""

\* no point sampling yet
SansEchant ==
    /\ point = Rien
    /\ nodata = Rien
    /\ fill = Rien
    /\ plan = Rien
    /\ echantillon = Rien
    /\ val_multi = Rien

(***************************************************************************)
(* Inputs of the aggregators.                                              *)
(***************************************************************************)
\* shape (nb_lignes, nb_colonnes) of the raster of the aggregation calls
FormeAgg == <<1, 3>>
\* admissible numbers of triangles
NbTrianglesAgg == {1, 2}
\* intersection areas: 0.0, 1.0, 1.5
AiresAgg == {0, Un, Un + Un \div 2}
\* finite field values: 1.0 + 2^-(Precision-1) and 1.5
ValeursFinies == {Un + 1, Un + Un \div 2}
\* field values
Valeurs == {NaN, Inf} \cup ValeursFinies
\* the rempl argument: mh_vers_sm_val passes np.nan, the default
Rempl == NaN

\* triangle ids of the meshes of the aggregation calls
IdsAgg == 0 .. 1

\* the ids of T in increasing order
RECURSIVE Croissant(_)
Croissant(T) ==
    IF T = {} THEN << >>
    ELSE LET t == CHOOSE x \in T : \A y \in T : x <= y
         IN  <<t>> \o Croissant(T \ {t})

\* the lists a pixel can hold with at most reste pairs: each triangle at most
\* once, in increasing id (the order in which mapping_surface appends)
ListesAgg(reste) ==
    UNION {{Image(Croissant(T), LAMBDA t : <<t, f[t]>>) : f \in [T -> AiresAgg]} :
           T \in {X \in SUBSET IdsAgg : X # {} /\ Cardinality(X) <= reste}}

\* the dictionaries over the cells of cles holding at most reste pairs in all,
\* no key with an empty list
RECURSIVE Correspondances(_, _)
Correspondances(cles, reste) ==
    IF cles = << >> THEN {<< >>}
    ELSE LET sans == Correspondances(Tail(cles), reste)
             avec == UNION {{(Head(cles) :> lst) @@ suite :
                               suite \in Correspondances(Tail(cles), reste - Len(lst))} :
                            lst \in ListesAgg(reste)}
         IN  sans \cup avec

CorrespondancesAgg == Correspondances(items(Cellules(FormeAgg)), MaxPaires)

InitAgg ==
    /\ appel = "init"
    /\ SansSuite
    /\ tris = Rien
    /\ map_px \in CorrespondancesAgg
    /\ nb_triangles \in {n \in NbTrianglesAgg : \A t \in Ids(map_px) : t < n}
    /\ tri_px = Rien
    /\ ras = Rien
    /\ val_simple = Rien
    /\ val_pondere = Rien
    /\ val_tri = Rien
    /\ ras_rec_simple = Rien
    /\ ras_rec_pondere = Rien
    /\ ras_rec_plugin = Rien
    /\ raster_proj = Rien
    /\ SansEchant
    /\ SansFichier

\* tri_px = inverser_mapping(map_px, len(tri))         (mh_vers_sm_val, step 4)
Inverser ==
    /\ appel = "init"
    /\ appel' = "inverser_mapping"
    /\ tri_px' = inverser_mapping(map_px, nb_triangles)
    /\ UNCHANGED <<tris, map_px, nb_triangles, ras, val_simple, val_pondere, val_tri,
                   ras_rec_simple, ras_rec_pondere, ras_rec_plugin, raster_proj>>
    /\ UNCHANGED HorsCalcul

\* val_tri = moyenne_pixels_par_triangle(ras, tri_px, pondere, np.nan), in both modes
Moyenne ==
    /\ appel = "inverser_mapping"
    /\ appel' = "moyenne_pixels_par_triangle"
    /\ \E r \in [Cellules(FormeAgg) -> Valeurs] :
          /\ ras' = r
          /\ val_simple' = moyenne_pixels_par_triangle(r, tri_px, FALSE, Rempl)
          /\ val_pondere' = moyenne_pixels_par_triangle(r, tri_px, TRUE, Rempl)
    /\ UNCHANGED <<tris, map_px, nb_triangles, tri_px, val_tri,
                   ras_rec_simple, ras_rec_pondere, ras_rec_plugin, raster_proj>>
    /\ UNCHANGED HorsCalcul

\* ras_rec = sm_vers_mh_raster(...), in both modes, on the values v of a .val file
SmVersMh ==
    /\ appel = "init"
    /\ appel' = "sm_vers_mh_raster"
    /\ \E v \in [0 .. nb_triangles - 1 -> Valeurs] :
          /\ val_tri' = v
          /\ ras_rec_simple' = sm_vers_mh_raster(map_px, v, FormeAgg, FALSE)
          /\ ras_rec_pondere' = sm_vers_mh_raster(map_px, v, FormeAgg, TRUE)
    /\ UNCHANGED <<tris, map_px, nb_triangles, tri_px, ras, val_simple, val_pondere,
                   ras_rec_plugin, raster_proj>>
    /\ UNCHANGED HorsCalcul

\* the plugin's reconstruction on the same correspondence and values
PluginSmVersMh ==
    /\ appel = "sm_vers_mh_raster"
    /\ appel' = "plugin_sm_vers_mh_raster"
    /\ ras_rec_plugin' = plugin_sm_vers_mh_raster(map_px, val_tri, FormeAgg)
    /\ UNCHANGED <<tris, map_px, nb_triangles, tri_px, ras, val_simple, val_pondere,
                   val_tri, ras_rec_simple, ras_rec_pondere, raster_proj>>
    /\ UNCHANGED HorsCalcul

\* projette_triangles_surface on the same correspondence and values
ProjetteSurface ==
    /\ appel = "plugin_sm_vers_mh_raster"
    /\ appel' = "projette_triangles_surface"
    /\ raster_proj' = projette_triangles_surface(val_tri, map_px, FormeAgg, NaN)
    /\ UNCHANGED <<tris, map_px, nb_triangles, tri_px, ras, val_simple, val_pondere,
                   val_tri, ras_rec_simple, ras_rec_pondere, ras_rec_plugin>>
    /\ UNCHANGED HorsCalcul

NextAgg == Inverser \/ Moyenne \/ SmVersMh \/ PluginSmVersMh \/ ProjetteSurface

SpecAgg == InitAgg /\ [][NextAgg]_vars

(***************************************************************************)
(* Inputs of mapping_surface: every triangle with its vertices on the      *)
(* corners of the cells, up to two cells west and north of the raster and  *)
(* one east and south, alone in its mesh; and the meshes of at most MaxTri *)
(* triangles drawn from a catalogue.                                       *)
(***************************************************************************)
\* x and y of the cell corners
Abscisses == {i * Pas : i \in 0 .. NbColonnes + 3}
Ordonnees == {j * Pas : j \in 0 .. NbLignes + 3}
Sommets == Abscisses \X Ordonnees

\* p before q, or p = q
AvantOuEgal(p, q) == p[1] < q[1] \/ (p[1] = q[1] /\ p[2] <= q[2])

\* every triangle on the corners, coincident and collinear vertices included
TrianglesTreillis ==
    {t \in Sommets \X Sommets \X Sommets : AvantOuEgal(t[1], t[2]) /\ AvantOuEgal(t[2], t[3])}

\* the triangle with vertices a, b, c given in cell sizes
Tri(a, b, c) == <<<<a[1] * Pas, a[2] * Pas>>, <<b[1] * Pas, b[2] * Pas>>, <<c[1] * Pas, c[2] * Pas>>>>

\* the east and north edges of the raster, in cell sizes (west: 2, south: 1)
Est == NbColonnes + 2
Nord == NbLignes + 1

Catalogue ==
    { Tri(<<2, 1>>, <<3, 1>>, <<2, 2>>),                    \* inside one cell
      Tri(<<2, 1>>, <<4, 1>>, <<2, 3>>),                    \* inside the raster, over several cells
      Tri(<<2, 1>>, <<2, 3>>, <<4, 2>>),                    \* the same, clockwise, cutting the cell edges off the corners
      Tri(<<1, 1>>, <<4, 2>>, <<1, 3>>),                    \* across the west edge
      Tri(<<Est - 1, 0>>, <<Est + 1, 2>>, <<Est - 1, Nord + 1>>),  \* across the east, north and south edges
      Tri(<<0, 1>>, <<1, 2>>, <<0, 3>>),                    \* west of the raster, away from it
      Tri(<<1, 1>>, <<2, 2>>, <<1, 3>>),                    \* west of the raster, touching it
      Tri(<<2, Nord + 1>>, <<4, Nord + 1>>, <<3, Nord + 2>>),  \* north of the raster, away from it
      Tri(<<2, 0>>, <<3, 1>>, <<4, 0>>),                    \* south of the raster, touching it
      Tri(<<Est, 1>>, <<Est + 1, 2>>, <<Est, 3>>),          \* east of the raster, along its edge
      Tri(<<2, 1>>, <<3, 2>>, <<4, 3>>),                    \* collinear vertices
      Tri(<<3, 2>>, <<3, 2>>, <<2, 1>>) }                   \* coincident vertices

Maillages ==
    {<<t>> : t \in TrianglesTreillis}
        \cup UNION {[1 .. n -> Catalogue] : n \in 2 .. MaxTri}

InitSurface ==
    /\ appel = "init"
    /\ SansSuite
    /\ tris \in Maillages
    /\ nb_triangles = Len(tris)
    /\ map_px = Rien
    /\ tri_px = Rien
    /\ ras = Rien
    /\ val_simple = Rien
    /\ val_pondere = Rien
    /\ val_tri = Rien
    /\ ras_rec_simple = Rien
    /\ ras_rec_pondere = Rien
    /\ ras_rec_plugin = Rien
    /\ raster_proj = Rien
    /\ SansEchant
    /\ SansFichier

\* map_px = mapping_surface(pts, tri, gt, mh.shape)     (mh_vers_sm_val, step 3)
MappingSurface ==
    /\ appel = "init"
    /\ appel' = "mapping_surface"
    /\ map_px' = mapping_surface(tris, GT, Forme)
    /\ UNCHANGED <<tris, nb_triangles, tri_px, ras, val_simple, val_pondere, val_tri,
                   ras_rec_simple, ras_rec_pondere, ras_rec_plugin, raster_proj>>
    /\ UNCHANGED HorsCalcul

NextSurface == MappingSurface

SpecSurface == InitSurface /\ [][NextSurface]_vars

(***************************************************************************)
(* Round trip raster -> triangles -> raster on a uniform raster: the       *)
(* correspondence is one mapping_surface can return (every area > 0), the  *)
(* values per triangle go from moyenne_pixels_par_triangle to the          *)
(* aggregation of sm_vers_mh_raster without passing through a file.        *)
(***************************************************************************)
\* the correspondences whose areas are all positive
CorrespondancesSurface ==
    {m \in CorrespondancesAgg : \A c \in DOMAIN m : \A k \in DOMAIN m[c] : m[c][k][2] > 0}

InitAllerRetour ==
    /\ appel = "init"
    /\ SansSuite
    /\ tris = Rien
    /\ map_px \in CorrespondancesSurface
    /\ nb_triangles \in {n \in NbTrianglesAgg : \A t \in Ids(map_px) : t < n}
    /\ tri_px = Rien
    /\ ras = Rien
    /\ val_simple = Rien
    /\ val_pondere = Rien
    /\ val_tri = Rien
    /\ ras_rec_simple = Rien
    /\ ras_rec_pondere = Rien
    /\ ras_rec_plugin = Rien
    /\ raster_proj = Rien
    /\ SansEchant
    /\ SansFichier

\* moyenne_pixels_par_triangle, in both modes, on a raster equal to V everywhere
MoyenneUniforme ==
    /\ appel = "inverser_mapping"
    /\ appel' = "moyenne_pixels_par_triangle"
    /\ \E V \in ValeursFinies :
          /\ ras' = [c \in Cellules(FormeAgg) |-> V]
          /\ val_simple' = moyenne_pixels_par_triangle(ras', tri_px, FALSE, Rempl)
          /\ val_pondere' = moyenne_pixels_par_triangle(ras', tri_px, TRUE, Rempl)
    /\ UNCHANGED <<tris, map_px, nb_triangles, tri_px, val_tri,
                   ras_rec_plugin, raster_proj>>
    /\ UNCHANGED <<ras_rec_simple, ras_rec_pondere>>
    /\ UNCHANGED HorsCalcul

\* the aggregation of sm_vers_mh_raster on the values just computed, mode by mode
Retour ==
    /\ appel = "moyenne_pixels_par_triangle"
    /\ appel' = "aller_retour"
    /\ ras_rec_simple' = sm_vers_mh_raster(map_px, val_simple, FormeAgg, FALSE)
    /\ ras_rec_pondere' = sm_vers_mh_raster(map_px, val_pondere, FormeAgg, TRUE)
    /\ UNCHANGED <<tris, map_px, nb_triangles, tri_px, ras, val_simple, val_pondere,
                   val_tri, ras_rec_plugin, raster_proj>>
    /\ UNCHANGED HorsCalcul

NextAllerRetour == Inverser \/ MoyenneUniforme \/ Retour

SpecAllerRetour == InitAllerRetour /\ [][NextAllerRetour]_vars

(***************************************************************************)
(* Exchange of a field through a .val file: ecrire_val writes val_tri      *)
(* facet by facet, lire_val reads the file back.  The lengths of val_tri   *)
(* and of the facets are drawn independently.                              *)
(***************************************************************************)
\* largest number of facets
MaxFacettes == 2
\* largest number of values of val_tri
MaxValeurs == 3
\* numbers of triangles of a facet
TaillesFacette == 0 .. 2
\* values of a field: no value, infinite, 2^-(Precision-2), 1.5
ValeursChamp == {NaN, Inf, 2, Un + Un \div 2}

\* sum(tailles)
RECURSIVE TotalFacettes(_)
TotalFacettes(tailles) ==
    IF tailles = << >> THEN 0 ELSE Head(tailles) + TotalFacettes(Tail(tailles))

InitVal ==
    /\ appel = "init"
    /\ SansSuite
    /\ tailles_facettes \in UNION {[1 .. n -> TaillesFacette] : n \in 0 .. MaxFacettes}
    /\ val_tri \in UNION {[0 .. n - 1 -> ValeursChamp] : n \in 0 .. MaxValeurs}
    /\ fichier = Rien
    /\ relu = Rien
    /\ erreur = ""
    /\ tris = Rien
    /\ map_px = Rien
    /\ nb_triangles = Rien
    /\ tri_px = Rien
    /\ ras = Rien
    /\ val_simple = Rien
    /\ val_pondere = Rien
    /\ ras_rec_simple = Rien
    /\ ras_rec_pondere = Rien
    /\ ras_rec_plugin = Rien
    /\ raster_proj = Rien
    /\ SansEchant

\* ecrire_val(val_sortie, tailles, val_tri)                (mh_vers_sm_val, step 6)
EcrireVal ==
    /\ appel = "init"
    /\ appel' = "ecrire_val"
    /\ fichier' = ecrire_val(tailles_facettes, val_tri).lignes
    /\ erreur' = ecrire_val(tailles_facettes, val_tri).erreur
    /\ UNCHANGED <<tailles_facettes, val_tri, relu, varsCalcul, varsEchant, varsSuite>>

\* val_tri = lire_val(val_path) on the file written
LireVal ==
    /\ appel = "ecrire_val"
    /\ appel' = "lire_val"
    /\ relu' = lire_val(fichier).valeurs
    /\ erreur' = lire_val(fichier).erreur
    /\ UNCHANGED <<tailles_facettes, val_tri, fichier, varsCalcul, varsEchant, varsSuite>>

NextVal == EcrireVal \/ LireVal

SpecVal == InitVal /\ [][NextVal]_vars

(***************************************************************************)
(* Files cut short.  A .val file or a .cir file is laid out in full from   *)
(* the sizes of its facets, then cut at a line or robbed of a line, and    *)
(* handed to the reader of its format.                                     *)
(***************************************************************************)
\* the blocks Y .. N of a facet of a .cir file: "c<Y>", "3", three points
RECURSIVE CirBlocs(_, _, _)
CirBlocs(Y, N, p) ==
    IF Y > N THEN << >>
    ELSE <<CirBloc(Y), CirNombre(3), CirXYZ(p + 1), CirXYZ(p + 2), CirXYZ(p + 3)>>
         \o CirBlocs(Y + 1, N, p + 3)

\* the facets i .. of a .cir file: "f<i> <N>", the normal, the N blocks
RECURSIVE CirFacettes(_, _, _)
CirFacettes(tailles, i, p) ==
    IF i > Len(tailles) THEN << >>
    ELSE <<CirFacette(i, tailles[i]), CirXYZ(0)>> \o CirBlocs(1, tailles[i], p)
         \o CirFacettes(tailles, i + 1, p + 3 * tailles[i])

\* the .cir file of facets of these sizes
FichierCir(tailles) == CirFacettes(tailles, 1, 0)

\* the field of n values 1.5
ChampUni(n) == [k \in 0 .. n - 1 |-> Un + Un \div 2]

\* a file of the .val format
EstVal(lignes) == lignes # << >> /\ lignes[1][1] = "entete"

\* the line p taken out
SansLigne(lignes, p) == SubSeq(lignes, 1, p - 1) \o SubSeq(lignes, p + 1, Len(lignes))

InitLecture ==
    /\ appel = "init"
    /\ SansSuite
    /\ tailles_facettes \in UNION {[1 .. n -> TaillesFacette] : n \in 1 .. MaxFacettes}
    /\ \/ /\ val_tri = ChampUni(TotalFacettes(tailles_facettes))
          /\ fichier = ecrire_val(tailles_facettes, val_tri).lignes
       \/ /\ val_tri = Rien
          /\ fichier = FichierCir(tailles_facettes)
    /\ relu = Rien
    /\ erreur = ""
    /\ tris = Rien
    /\ map_px = Rien
    /\ nb_triangles = Rien
    /\ tri_px = Rien
    /\ ras = Rien
    /\ val_simple = Rien
    /\ val_pondere = Rien
    /\ ras_rec_simple = Rien
    /\ ras_rec_pondere = Rien
    /\ ras_rec_plugin = Rien
    /\ raster_proj = Rien
    /\ SansEchant

\* the file ends after its line j
Tronquer ==
    /\ appel = "init"
    /\ appel' = "tronque"
    /\ \E j \in 1 .. Len(fichier) - 1 : fichier' = SubSeq(fichier, 1, j)
    /\ UNCHANGED <<tailles_facettes, val_tri, relu, erreur, varsCalcul, varsEchant, varsSuite>>

\* a line within a facet is missing, or the number of points of a block is
\* not a whole number
Abimer ==
    /\ appel = "init"
    /\ appel' = "abime"
    /\ \E p \in 1 .. Len(fichier) :
          \/ /\ fichier[p][1] \in {"v", "c", "n", "xyz"}
             /\ fichier' = SansLigne(fichier, p)
          \/ /\ fichier[p][1] = "n"
             /\ fichier' = [fichier EXCEPT ![p] = CirTexte]
    /\ UNCHANGED <<tailles_facettes, val_tri, relu, erreur, varsCalcul, varsEchant, varsSuite>>

\* io_mh_sm_exchange.lire_val(val_path)
LireValFichier ==
    /\ appel \in {"init", "tronque", "abime"}
    /\ EstVal(fichier)
    /\ appel' = "lire_val"
    /\ relu' = lire_val(fichier).valeurs
    /\ erreur' = lire_val(fichier).erreur
    /\ UNCHANGED <<tailles_facettes, val_tri, fichier, varsCalcul, varsEchant, varsSuite>>

\* verif_val.lire_val(chemin_val)
VerifLireVal ==
    /\ appel \in {"init", "tronque", "abime"}
    /\ EstVal(fichier)
    /\ appel' = "verif_lire_val"
    /\ LET r == verif_lire_val(fichier)
       IN  /\ relu' = IF r.erreur = "" THEN <<r.tailles, r.valeurs>> ELSE Rien
           /\ erreur' = r.erreur
    /\ UNCHANGED <<tailles_facettes, val_tri, fichier, varsCalcul, varsEchant, varsSuite>>

\* lire_scene_triangle_cir(cir_path)
LireCir ==
    /\ appel \in {"init", "tronque", "abime"}
    /\ ~EstVal(fichier)
    /\ appel' = "lire_scene_triangle_cir"
    /\ LET r == lire_scene_triangle_cir(fichier)
       IN  /\ relu' = IF r.erreur = "" THEN <<r.tailles, r.tri>> ELSE Rien
           /\ erreur' = r.erreur
    /\ UNCHANGED <<tailles_facettes, val_tri, fichier, varsCalcul, varsEchant, varsSuite>>

NextLecture == Tronquer \/ Abimer \/ LireValFichier \/ VerifLireVal \/ LireCir

SpecLecture == InitLecture /\ [][NextLecture]_vars

(***************************************************************************)
(* Point sampling.  The raster has cells of size 1.0, its west edge at     *)
(* x = 1.0 and its south edge at y = 1.0; its values grow by a quarter     *)
(* from cell to cell, one cell at most holding NaN, an infinite value or   *)
(* the nodata value.                                                       *)
(***************************************************************************)
\* gt = (x0, dx, 0, y0, 0, dy) of the sampled raster
GTE == <<Un, Un, 0, (NbLignes + 1) * Un, 0, 0 - Un>>

\* the nodata given to the sampling functions: 16.0, above every value of the
\* raster
NodataEchant == 16 * Un

\* the raster without special cell
RasterBase == [c \in Cellules(Forme) |-> Un + (c[1] * NbColonnes + c[2]) * (Un \div 4)]

RastersEchant ==
    {RasterBase} \cup
    {[RasterBase EXCEPT ![c] = v] : c \in Cellules(Forme), v \in {NaN, Inf, NodataEchant}}

\* world coordinates: the halves from 0.0 to a cell and a half past the raster
AbscissesEchant == {k * (Un \div 2) : k \in 0 .. 2 * NbColonnes + 3}
OrdonneesEchant == {k * (Un \div 2) : k \in 0 .. 2 * NbLignes + 3}

InitEchant ==
    /\ appel = "init"
    /\ SansSuite
    /\ ras \in RastersEchant
    /\ point \in AbscissesEchant \X OrdonneesEchant
    /\ nodata \in {Aucun, NodataEchant}
    /\ fill \in {NaN, 0}
    /\ plan = Rien
    /\ echantillon = Rien
    /\ val_multi = Rien
    /\ SansFichier
    /\ val_tri = Rien
    /\ tris = Rien
    /\ map_px = Rien
    /\ nb_triangles = Rien
    /\ tri_px = Rien
    /\ val_simple = Rien
    /\ val_pondere = Rien
    /\ ras_rec_simple = Rien
    /\ ras_rec_pondere = Rien
    /\ ras_rec_plugin = Rien
    /\ raster_proj = Rien

\* _echant_bilineaire(raster, x, y, gt, nodata, fill)
EchantBilineaire ==
    /\ appel = "init"
    /\ appel' = "_echant_bilineaire"
    /\ echantillon' = _echant_bilineaire(ras, Forme, point[1], point[2], GTE, nodata, fill)
    /\ UNCHANGED <<val_tri, varsCalcul, varsFichier, point, nodata, fill, plan, val_multi,
                   varsSuite>>

NextEchant == EchantBilineaire

SpecEchant == InitEchant /\ [][NextEchant]_vars

(***************************************************************************)
(* The pairs of a list in any order: a list of the forward map, or of      *)
(* tri_px, is permuted before the aggregator reads it.                     *)
(***************************************************************************)
\* the permutations of 1 .. n
Ordres(n) == {s \in [1 .. n -> 1 .. n] : \A i, j \in 1 .. n : s[i] = s[j] => i = j}

\* the list lst in the order s
Permute(lst, s) == [k \in 1 .. Len(lst) |-> lst[s[k]]]

\* the dictionaries that hold the lists of d, each in some order
Permutes(d) ==
    {e \in [DOMAIN d -> UNION {{Permute(d[c], s) : s \in Ordres(Len(d[c]))} : c \in DOMAIN d}] :
        \A c \in DOMAIN d : \E s \in Ordres(Len(d[c])) : e[c] = Permute(d[c], s)}

\* areas: 1.0, 1.5
AiresPerm == {Un, Un + Un \div 2}

\* values: none, 1.0 + 2^-(Precision-1), 1.5
ValeursPerm == {NaN} \cup ValeursFinies

\* forward maps: one cell under up to MaxPaires triangles, or one triangle over
\* some cells of the raster
CartesPerm ==
    UNION {{(<<0, 0>> :> [k \in 1 .. n |-> <<k - 1, a[k]>>]) : a \in [1 .. n -> AiresPerm]} :
           n \in 1 .. MaxPaires}
    \cup UNION {{[c \in C |-> <<<<0, a[c]>>>>] : a \in [C -> AiresPerm]} :
                C \in SUBSET Cellules(FormeAgg) \ {{}}}

InitPermutation ==
    /\ appel = "init"
    /\ SansSuite
    /\ tris = Rien
    /\ map_px \in CartesPerm
    /\ nb_triangles = Cardinality(Ids(map_px))
    /\ tri_px = Rien
    /\ ras = Rien
    /\ val_simple = Rien
    /\ val_pondere = Rien
    /\ val_tri = Rien
    /\ ras_rec_simple = Rien
    /\ ras_rec_pondere = Rien
    /\ ras_rec_plugin = Rien
    /\ raster_proj = Rien
    /\ SansEchant
    /\ SansFichier

\* the lists of tri_px in another order
PermuterTriPx ==
    /\ appel = "inverser_mapping"
    /\ appel' = "permuter_tri_px"
    /\ tri_px' \in Permutes(tri_px)
    /\ UNCHANGED <<tris, map_px, nb_triangles, ras, val_simple, val_pondere, val_tri,
                   ras_rec_simple, ras_rec_pondere, ras_rec_plugin, raster_proj>>
    /\ UNCHANGED HorsCalcul

\* moyenne_pixels_par_triangle, in both modes, on the permuted tri_px
MoyennePermutee ==
    /\ appel = "permuter_tri_px"
    /\ appel' = "moyenne_pixels_par_triangle"
    /\ \E r \in [Cellules(FormeAgg) -> ValeursPerm] :
          /\ ras' = r
          /\ val_simple' = moyenne_pixels_par_triangle(r, tri_px, FALSE, Rempl)
          /\ val_pondere' = moyenne_pixels_par_triangle(r, tri_px, TRUE, Rempl)
    /\ UNCHANGED <<tris, map_px, nb_triangles, tri_px, val_tri,
                   ras_rec_simple, ras_rec_pondere, ras_rec_plugin, raster_proj>>
    /\ UNCHANGED HorsCalcul

\* the lists of the forward map in another order
PermuterMapPx ==
    /\ appel = "init"
    /\ appel' = "permuter_map_px"
    /\ map_px' \in Permutes(map_px)
    /\ UNCHANGED <<tris, nb_triangles, tri_px, ras, val_simple, val_pondere, val_tri,
                   ras_rec_simple, ras_rec_pondere, ras_rec_plugin, raster_proj>>
    /\ UNCHANGED HorsCalcul

\* sm_vers_mh_raster, in both modes, on the permuted forward map
SmVersMhPermute ==
    /\ appel = "permuter_map_px"
    /\ appel' = "sm_vers_mh_raster"
    /\ \E v \in [0 .. nb_triangles - 1 -> ValeursPerm] :
          /\ val_tri' = v
          /\ ras_rec_simple' = sm_vers_mh_raster(map_px, v, FormeAgg, FALSE)
          /\ ras_rec_pondere' = sm_vers_mh_raster(map_px, v, FormeAgg, TRUE)
    /\ UNCHANGED <<tris, map_px, nb_triangles, tri_px, ras, val_simple, val_pondere,
                   ras_rec_plugin, raster_proj>>
    /\ UNCHANGED HorsCalcul

\* projette_triangles_surface on the permuted forward map and the same values
ProjettePermute ==
    /\ appel = "sm_vers_mh_raster"
    /\ appel' = "projette_triangles_surface"
    /\ raster_proj' = projette_triangles_surface(val_tri, map_px, FormeAgg, NaN)
    /\ UNCHANGED <<tris, map_px, nb_triangles, tri_px, ras, val_simple, val_pondere,
                   val_tri, ras_rec_simple, ras_rec_pondere, ras_rec_plugin>>
    /\ UNCHANGED HorsCalcul

NextPermutation ==
    Inverser \/ PermuterTriPx \/ MoyennePermutee \/ PermuterMapPx \/ SmVersMhPermute
        \/ ProjettePermute

SpecPermutation == InitPermutation /\ [][NextPermutation]_vars

(***************************************************************************)
(* mapping_barycentre on the meshes given to mapping_surface.              *)
(***************************************************************************)
InitBarycentre == InitSurface

\* mapping_barycentre(points, triangles, gt, shape_raster)
MappingBarycentre ==
    /\ appel = "init"
    /\ appel' = "mapping_barycentre"
    /\ map_px' = mapping_barycentre(tris, GT, Forme)
    /\ UNCHANGED <<tris, nb_triangles, tri_px, ras, val_simple, val_pondere, val_tri,
                   ras_rec_simple, ras_rec_pondere, ras_rec_plugin, raster_proj>>
    /\ UNCHANGED HorsCalcul

NextBarycentre == MappingBarycentre

SpecBarycentre == InitBarycentre /\ [][NextBarycentre]_vars

(***************************************************************************)
(* Multi-sampling of the rasters of the point sampling, over meshes of at  *)
(* most MaxTri triangles.                                                  *)
(***************************************************************************)
\* the triangle of the vertices a, b, c given in halves of a cell
TriEchant(a, b, c) ==
    <<<<a[1] * (Un \div 2), a[2] * (Un \div 2)>>, <<b[1] * (Un \div 2), b[2] * (Un \div 2)>>,
      <<c[1] * (Un \div 2), c[2] * (Un \div 2)>>>>

\* the north edge of the raster, in halves of a cell
NordEchant == 2 * (NbLignes + 1)

\* the triangles of the sampled meshes, in a ring
CatalogueEchant ==
    << TriEchant(<<2, NordEchant>>, <<3, NordEchant>>, <<2, NordEchant - 1>>),  \* in the north-west cell
       TriEchant(<<0, 0>>, <<1, 0>>, <<0, 1>>),                                \* south-west of the raster
       TriEchant(<<2, NordEchant>>, <<6, NordEchant>>, <<2, NordEchant - 4>>),  \* from the north-west corner, two cells wide
       TriEchant(<<2, NordEchant>>, <<4, NordEchant>>, <<2, NordEchant - 2>>) >> \* over the north-west cell, to its edges

\* the meshes: up to MaxTri triangles that follow each other in the ring
MaillagesEchant ==
    {[k \in 1 .. n |-> CatalogueEchant[((d + k - 2) % Len(CatalogueEchant)) + 1]] :
        n \in 1 .. MaxTri, d \in 1 .. Len(CatalogueEchant)}

InitMulti ==
    /\ appel = "init"
    /\ SansSuite
    /\ ras \in RastersEchant
    /\ tris \in MaillagesEchant
    /\ nb_triangles = Len(tris)
    /\ nodata \in {Aucun, NodataEchant}
    /\ fill \in {NaN, 0}
    /\ plan \in {"4pt", "7pt"}
    /\ point = Rien
    /\ echantillon = Rien
    /\ val_multi = Rien
    /\ SansFichier
    /\ val_tri = Rien
    /\ map_px = Rien
    /\ tri_px = Rien
    /\ val_simple = Rien
    /\ val_pondere = Rien
    /\ ras_rec_simple = Rien
    /\ ras_rec_pondere = Rien
    /\ ras_rec_plugin = Rien
    /\ raster_proj = Rien

\* mh_vers_tri_multisample(raster, points, triangles, gt, nodata, fill, plan)
MultiSample ==
    /\ appel = "init"
    /\ appel' = "mh_vers_tri_multisample"
    /\ val_multi' = mh_vers_tri_multisample(ras, Forme, tris, GTE, nodata, fill, plan)
    /\ UNCHANGED <<val_tri, varsCalcul, varsFichier, point, nodata, fill, plan, echantillon,
                   varsSuite>>

NextMulti == MultiSample

SpecMulti == InitMulti /\ [][NextMulti]_vars

(***************************************************************************)
(* A field whose length is not the number of triangles: val_tri is drawn   *)
(* with any length up to MaxValeurs, the facets of the .cir hold           *)
(* nb_triangles triangles in all, and each of ecrire_val and the two       *)
(* sm_vers_mh_raster is called on the pair.                                *)
(***************************************************************************)
\* field values: no value, 1.0
ValeursDesaccord == {NaN, Un}

\* the correspondences whose areas are all 1.0
CorrespondancesUnite ==
    {m \in CorrespondancesAgg : \A c \in DOMAIN m : \A k \in DOMAIN m[c] : m[c][k][2] = Un}

InitDesaccord ==
    /\ appel = "init"
    /\ SansSuite
    /\ map_px \in CorrespondancesUnite
    /\ nb_triangles \in {n \in NbTrianglesAgg : \A t \in Ids(map_px) : t < n}
    /\ tailles_facettes \in
          {t \in UNION {[1 .. n -> TaillesFacette] : n \in 1 .. MaxFacettes} :
              TotalFacettes(t) = nb_triangles}
    /\ val_tri \in UNION {[0 .. n - 1 -> ValeursDesaccord] : n \in 0 .. MaxValeurs}
    /\ fichier = Rien
    /\ relu = Rien
    /\ erreur = ""
    /\ tris = Rien
    /\ tri_px = Rien
    /\ ras = Rien
    /\ val_simple = Rien
    /\ val_pondere = Rien
    /\ ras_rec_simple = Rien
    /\ ras_rec_pondere = Rien
    /\ ras_rec_plugin = Rien
    /\ raster_proj = Rien
    /\ SansEchant

\* io sm_vers_mh_raster, in both modes, on the values read from the .val file
SmVersMhLu ==
    /\ appel = "init"
    /\ appel' = "sm_vers_mh_raster"
    /\ erreur' = erreur_sm_vers_mh_raster(map_px, val_tri, FALSE)
    /\ ras_rec_simple' =
          IF erreur_sm_vers_mh_raster(map_px, val_tri, FALSE) # "" THEN Rien
          ELSE sm_vers_mh_raster(map_px, val_tri, FormeAgg, FALSE)
    /\ ras_rec_pondere' =
          IF erreur_sm_vers_mh_raster(map_px, val_tri, TRUE) # "" THEN Rien
          ELSE sm_vers_mh_raster(map_px, val_tri, FormeAgg, TRUE)
    /\ UNCHANGED <<tris, map_px, nb_triangles, tri_px, ras, val_simple, val_pondere,
                   val_tri, ras_rec_plugin, raster_proj>>
    /\ UNCHANGED <<tailles_facettes, fichier, relu, varsEchant, varsSuite>>

\* the plugin's sm_vers_mh_raster on the values read from the .val file
PluginSmVersMhLu ==
    /\ appel = "init"
    /\ appel' = "plugin_sm_vers_mh_raster"
    /\ erreur' = ""
    /\ ras_rec_plugin' = plugin_sm_vers_mh_raster(map_px, val_tri, FormeAgg)
    /\ UNCHANGED <<tris, map_px, nb_triangles, tri_px, ras, val_simple, val_pondere,
                   val_tri, ras_rec_simple, ras_rec_pondere, raster_proj>>
    /\ UNCHANGED <<tailles_facettes, fichier, relu, varsEchant, varsSuite>>

NextDesaccord == EcrireVal \/ SmVersMhLu \/ PluginSmVersMhLu

SpecDesaccord == InitDesaccord /\ [][NextDesaccord]_vars

(***************************************************************************)
(* The raster read from its file, then aggregated: lire_mh_ascii,          *)
(* inverser_mapping and moyenne_pixels_par_triangle as mh_vers_sm_val      *)
(* chains them.                                                            *)
(***************************************************************************)
\* numbers of an ASCII grid, in hundredths: 1.50, 2.00, 9999.00
NombresAscii == {150, 200, 9999 * 100}

\* NODATA_value of the header: none, 9999, 2.00
NodataAscii == {Aucun, 9999 * 100, 200}

InitAscii ==
    /\ appel = "init"
    /\ SansSuite
    /\ fichier \in {<<nd, d>> : nd \in NodataAscii,
                                d \in [1 .. FormeAgg[1] * FormeAgg[2] -> NombresAscii]}
    /\ map_px \in CorrespondancesUnite
    /\ nb_triangles \in {n \in NbTrianglesAgg : \A t \in Ids(map_px) : t < n}
    /\ tailles_facettes = Rien
    /\ relu = Rien
    /\ erreur = ""
    /\ SansEchant
    /\ tris = Rien
    /\ tri_px = Rien
    /\ ras = Rien
    /\ val_simple = Rien
    /\ val_pondere = Rien
    /\ val_tri = Rien
    /\ ras_rec_simple = Rien
    /\ ras_rec_pondere = Rien
    /\ ras_rec_plugin = Rien
    /\ raster_proj = Rien

\* ras, gt, nodata = lire_mh_ascii(mh_txt)
LireMhAscii ==
    /\ appel = "init"
    /\ appel' = "lire_mh_ascii"
    /\ ras' = lire_mh_ascii(fichier, FormeAgg)
    /\ UNCHANGED <<tris, map_px, nb_triangles, tri_px, val_simple, val_pondere, val_tri,
                   ras_rec_simple, ras_rec_pondere, ras_rec_plugin, raster_proj>>
    /\ UNCHANGED HorsCalcul

\* tri_px = inverser_mapping(map_px, len(tri)) after the raster is read
InverserLu ==
    /\ appel = "lire_mh_ascii"
    /\ appel' = "inverser_mapping"
    /\ tri_px' = inverser_mapping(map_px, nb_triangles)
    /\ UNCHANGED <<tris, map_px, nb_triangles, ras, val_simple, val_pondere, val_tri,
                   ras_rec_simple, ras_rec_pondere, ras_rec_plugin, raster_proj>>
    /\ UNCHANGED HorsCalcul

\* val_tri = moyenne_pixels_par_triangle(ras, tri_px, pondere, np.nan) on the
\* raster read, in both modes
MoyenneLue ==
    /\ appel = "inverser_mapping"
    /\ ras # Rien
    /\ appel' = "moyenne_pixels_par_triangle"
    /\ val_simple' = moyenne_pixels_par_triangle(ras, tri_px, FALSE, Rempl)
    /\ val_pondere' = moyenne_pixels_par_triangle(ras, tri_px, TRUE, Rempl)
    /\ UNCHANGED <<tris, map_px, nb_triangles, tri_px, ras, val_tri,
                   ras_rec_simple, ras_rec_pondere, ras_rec_plugin, raster_proj>>
    /\ UNCHANGED HorsCalcul

NextAscii == LireMhAscii \/ InverserLu \/ MoyenneLue

SpecAscii == InitAscii /\ [][NextAscii]_vars

(***************************************************************************)
(* Vocabulary of the properties.                                           *)
(***************************************************************************)
\* number of occurrences of x in the sequence s
Compte(s, x) == Cardinality({k \in DOMAIN s : s[k] = x})

\* a value that is neither NaN nor infinite
EstFinie(x) == x \notin {NaN, Inf}

\* the entries (lig, col, aire) of pixels whose cell holds a finite value of r
EntreesFinies(r, pixels) == SelectSeq(pixels, LAMBDA p : EstFinie(r[<<p[1], p[2]>>]))

\* arithmetic mean of the finite cells of pixels
MoyenneDesFinis(r, pixels) ==
    LET F == EntreesFinies(r, pixels)
    IN  FDiv(np_sum(Image(F, LAMBDA p : r[<<p[1], p[2]>>])), Len(F) * Un)

\* sum of the areas of the finite cells of pixels
PoidsDesFinis(r, pixels) == np_sum(Image(EntreesFinies(r, pixels), LAMBDA p : p[3]))

\* area-weighted mean of the finite cells of pixels
MoyennePondereeDesFinis(r, pixels) ==
    LET F == EntreesFinies(r, pixels)
    IN  FDiv(np_sum(Image(F, LAMBDA p : FMul(r[<<p[1], p[2]>>], p[3]))),
             PoidsDesFinis(r, pixels))

\* the calls after which tri_px holds the inverted correspondence
Inverse == appel \in {"inverser_mapping", "moyenne_pixels_par_triangle"}
\* the call after which val_simple and val_pondere hold the aggregated values
Agrege == appel = "moyenne_pixels_par_triangle"

(***************************************************************************)
(* C1.  For a pixel -> triangles map whose ids lie in 0..n-1, the key set  *)
(* of inverser_mapping(m, n) is exactly 0..n-1, a triangle of no pixel     *)
(* list being present with an empty list, and                              *)
(* moyenne_pixels_par_triangle returns exactly n values, one per id.       *)
(***************************************************************************)
C1_InversionTotale ==
    /\ Inverse =>
          /\ DOMAIN tri_px = 0 .. nb_triangles - 1
          /\ \A t \in (0 .. nb_triangles - 1) \ Ids(map_px) : tri_px[t] = << >>
    /\ Agrege =>
          /\ DOMAIN val_simple = 0 .. nb_triangles - 1
          /\ DOMAIN val_pondere = 0 .. nb_triangles - 1

C1_Temoin ==
    /\ Agrege
    /\ Ids(map_px) # {}
    /\ \E t \in 0 .. nb_triangles - 1 : t \notin Ids(map_px) /\ tri_px[t] = << >>

(***************************************************************************)
(* C2.  Inversion keeps the correspondence: (lig, col, aire) is in         *)
(* tri_px[t] as many times as (t, aire) is in map_px[(lig, col)], and      *)
(* tri_px holds nothing else.                                              *)
(***************************************************************************)
C2_InversionFidele ==
    Inverse =>
        /\ \A t \in DOMAIN tri_px : \A c \in DOMAIN map_px : \A a \in AiresAgg :
              Compte(tri_px[t], <<c[1], c[2], a>>) = Compte(map_px[c], <<t, a>>)
        /\ \A t \in DOMAIN tri_px : \A k \in DOMAIN tri_px[t] :
              LET e == tri_px[t][k]
              IN  /\ <<e[1], e[2]>> \in DOMAIN map_px
                  /\ Compte(map_px[<<e[1], e[2]>>], <<t, e[3]>>) > 0

C2_Temoin ==
    /\ appel = "inverser_mapping"
    /\ \E t \in DOMAIN tri_px : Len(tri_px[t]) >= 2
    /\ \A t \in DOMAIN tri_px : Len(tri_px[t]) >= 1

(***************************************************************************)
(* Vocabulary of the properties of mapping_surface.                        *)
(***************************************************************************)
\* the list of the cell c in map_px (empty when c is no key)
ListeDe(c) == IF c \in DOMAIN map_px THEN map_px[c] ELSE << >>

\* the call after which map_px holds the correspondence of the mesh tris
Calcule == appel = "mapping_surface"

\* the area shared by the triangle poly_tri and the cell c
Recouvrement(poly_tri, c) == area(intersection(poly_tri, pixel(c[1], c[2], GT)))

\* the extent of the raster: (minx, miny, maxx, maxy)
Emprise == <<GT[1], GT[4] + NbLignes * GT[6], GT[1] + NbColonnes * GT[2], GT[4]>>

\* the triangle lies entirely west, east, south or north of the extent
Dehors(poly_tri) ==
    LET b == bounds(poly_tri)
    IN  \/ b[3] <= Emprise[1]
        \/ b[1] >= Emprise[3]
        \/ b[4] <= Emprise[2]
        \/ b[2] >= Emprise[4]

\* the triangle lies fully inside the extent
Dedans(poly_tri) ==
    LET b == bounds(poly_tri)
    IN  /\ b[1] >= Emprise[1] /\ b[3] <= Emprise[3]
        /\ b[2] >= Emprise[2] /\ b[4] <= Emprise[4]

\* sum of the whole numbers of the sequence s
RECURSIVE Somme(_)
Somme(s) == IF s = << >> THEN 0 ELSE Head(s) + Somme(Tail(s))

\* the areas recorded in the list lst for the triangle id_tri
AiresDe(lst, id_tri) ==
    Image(SelectSeq(lst, LAMBDA e : e[1] = id_tri), LAMBDA e : e[2])

\* sum over all cells of the areas recorded for the triangle id_tri
SommeRecue(id_tri) ==
    Somme(Image(items(DOMAIN map_px), LAMBDA c : Somme(AiresDe(map_px[c], id_tri))))

\* the cells recorded for the triangle id_tri
CellulesDe(id_tri) ==
    {c \in DOMAIN map_px : \E k \in DOMAIN map_px[c] : map_px[c][k][1] = id_tri}

(***************************************************************************)
(* C3.  In the map returned by mapping_surface every key is a cell of the  *)
(* raster with a non-empty list, every recorded area is > 0, and a cell    *)
(* that no triangle overlaps with positive area is no key.                 *)
(***************************************************************************)
C3_EntreesPositives ==
    Calcule =>
        /\ \A c \in DOMAIN map_px :
              /\ c \in Cellules(Forme)
              /\ map_px[c] # << >>
              /\ \A k \in DOMAIN map_px[c] : map_px[c][k][2] > 0
        /\ \A c \in Cellules(Forme) :
              (\A k \in DOMAIN tris : Recouvrement(tris[k], c) <= 0) => c \notin DOMAIN map_px

\* a non-degenerate triangle for which a visited cell shares no area with it
\* (they touch along an edge or at a corner) and is no key, another cell being one
C3_Temoin ==
    /\ Calcule
    /\ map_px # << >>
    /\ \E k \in DOMAIN tris :
          /\ CellulesDe(k - 1) # {}
          /\ \E c \in candidats(tris[k], GT, Forme) : c \notin DOMAIN map_px

(***************************************************************************)
(* C4.  A triangle entirely west, east, north or south of the extent of    *)
(* the raster gets no entry in the map returned by mapping_surface (the    *)
(* call returns), and the other triangles keep their entries: each overlap *)
(* of positive area recorded once, under the triangle's own id.            *)
(***************************************************************************)
C4_HorsEmprise ==
    Calcule =>
        \A k \in DOMAIN tris :
            Dehors(tris[k]) =>
                /\ CellulesDe(k - 1) = {}
                /\ \A j \in DOMAIN tris \ {k} : \A c \in Cellules(Forme) :
                      IF area(tris[j]) > 0 /\ Recouvrement(tris[j], c) > 0
                      THEN Compte(ListeDe(c), <<j - 1, Recouvrement(tris[j], c)>>) = 1
                      ELSE AiresDe(ListeDe(c), j - 1) = << >>

\* a mesh whose first triangle is outside and of positive area, its bounding
\* box reaching the raster, and whose second triangle has entries
C4_Temoin ==
    /\ Calcule
    /\ Len(tris) = 2
    /\ Dehors(tris[1]) /\ area(tris[1]) > 0
    /\ candidats(tris[1], GT, Forme) # {}
    /\ CellulesDe(0) = {}
    /\ Cardinality(CellulesDe(1)) >= 2

(***************************************************************************)
(* C5 as stated: for every triangle the sum of the areas recorded for it   *)
(* over all cells never exceeds its area, and equals it when the triangle  *)
(* lies fully inside the extent.                                           *)
(***************************************************************************)
C5_SommeExacte ==
    Calcule =>
        \A k \in DOMAIN tris :
            /\ SommeRecue(k - 1) <= area(tris[k])
            /\ Dedans(tris[k]) => SommeRecue(k - 1) = area(tris[k])

(***************************************************************************)
(* C5, amended: the sum of the areas recorded for a triangle exceeds its   *)
(* area by no more than the rounding of the areas, a relative 2u / (1 - u) *)
(* with u = 2^-Precision, and falls short of it by no more than that when  *)
(* the triangle lies fully inside the extent; a triangle of area 0 has no  *)
(* entry.                                                                  *)
(***************************************************************************)
C5_SommeArrondie ==
    Calcule =>
        \A k \in DOMAIN tris :
            /\ SommeRecue(k - 1) * (Pow2(Precision) - 1) <= area(tris[k]) * (Pow2(Precision) + 1)
            /\ Dedans(tris[k]) =>
                  SommeRecue(k - 1) * (Pow2(Precision) + 1) >= area(tris[k]) * (Pow2(Precision) - 1)
            /\ area(tris[k]) = 0 => CellulesDe(k - 1) = {}

\* a mesh with a triangle inside the extent over several cells whose recorded
\* sum differs from its area, and a triangle across an edge of the extent whose
\* recorded sum is positive and well below its area
C5_Temoin ==
    /\ Calcule
    /\ \E k \in DOMAIN tris :
          /\ Dedans(tris[k])
          /\ Cardinality(CellulesDe(k - 1)) >= 3
          /\ SommeRecue(k - 1) # area(tris[k])
    /\ \E k \in DOMAIN tris :
          /\ ~Dedans(tris[k]) /\ ~Dehors(tris[k])
          /\ SommeRecue(k - 1) > 0
          /\ 2 * SommeRecue(k - 1) < area(tris[k])

(***************************************************************************)
(* C6.  moyenne_pixels_par_triangle, both modes: the value of a triangle   *)
(* is computed from its cells of finite value only; a triangle with no     *)
(* cell, or no cell of finite value, gets the no-value marker, never 0.    *)
(***************************************************************************)
C6_CellulesFiniesSeules ==
    Agrege =>
        \A t \in DOMAIN tri_px :
            IF EntreesFinies(ras, tri_px[t]) = << >>
            THEN /\ val_simple[t] = Rempl /\ val_simple[t] # 0
                 /\ val_pondere[t] = Rempl /\ val_pondere[t] # 0
            ELSE /\ val_simple[t] = MoyenneDesFinis(ras, tri_px[t])
                 /\ val_pondere[t] =
                       IF PoidsDesFinis(ras, tri_px[t]) > 0
                       THEN MoyennePondereeDesFinis(ras, tri_px[t])
                       ELSE Rempl

C6_Temoin ==
    /\ Agrege
    /\ \E t \in DOMAIN tri_px :
          /\ \E k \in DOMAIN tri_px[t] : ras[<<tri_px[t][k][1], tri_px[t][k][2]>>] = Inf
          /\ Len(EntreesFinies(ras, tri_px[t])) = 1
          /\ EstFinie(val_simple[t]) /\ EstFinie(val_pondere[t])
    /\ \E t \in DOMAIN tri_px :
          /\ tri_px[t] # << >>
          /\ EntreesFinies(ras, tri_px[t]) = << >>
          /\ val_simple[t] = NaN

(***************************************************************************)
(* Triangle -> cell side of the vocabulary.                                *)
(***************************************************************************)
\* the entries (id_triangle, aire) of lst whose triangle holds a finite value of v
TrianglesFinis(v, lst) == SelectSeq(lst, LAMBDA e : EstFinie(v[e[1]]))

\* arithmetic mean of the finite triangle values of lst, NaN when there is none
MoyenneTrianglesFinis(v, lst) ==
    LET F == TrianglesFinis(v, lst)
    IN  IF F = << >> THEN NaN
        ELSE FDiv(np_sum(Image(F, LAMBDA e : v[e[1]])), Len(F) * Un)

\* sum of the areas of the finite triangles of lst
PoidsTrianglesFinis(v, lst) == np_sum(Image(TrianglesFinis(v, lst), LAMBDA e : e[2]))

\* area-weighted mean of the finite triangle values of lst, NaN when their
\* areas do not sum to a positive number
MoyennePondereeTrianglesFinis(v, lst) ==
    LET F == TrianglesFinis(v, lst)
    IN  IF PoidsTrianglesFinis(v, lst) > 0
        THEN FDiv(np_sum(Image(F, LAMBDA e : FMul(v[e[1]], e[2]))),
                  PoidsTrianglesFinis(v, lst))
        ELSE NaN

(***************************************************************************)
(* C7.  Triangle -> cell aggregation excludes the non-finite triangle      *)
(* values in both modes, and a cell all of whose triangles are non-finite  *)
(* (or that has none) gets the no-data marker: for sm_vers_mh_raster with  *)
(* pondere=False and pondere=True, for the plugin's sm_vers_mh_raster and  *)
(* for projette_triangles_surface.                                         *)
(***************************************************************************)
C7_ExclusionSymetrique ==
    \A c \in Cellules(FormeAgg) :
        /\ appel \in {"sm_vers_mh_raster", "plugin_sm_vers_mh_raster",
                      "projette_triangles_surface"} =>
              /\ ras_rec_simple[c] = MoyenneTrianglesFinis(val_tri, ListeDe(c))
              /\ ras_rec_pondere[c] = MoyennePondereeTrianglesFinis(val_tri, ListeDe(c))
        /\ appel \in {"plugin_sm_vers_mh_raster", "projette_triangles_surface"} =>
              ras_rec_plugin[c] = MoyenneTrianglesFinis(val_tri, ListeDe(c))
        /\ appel = "projette_triangles_surface" =>
              raster_proj[c] = MoyennePondereeTrianglesFinis(val_tri, ListeDe(c))

\* the part of C7 the weighted branch of sm_vers_mh_raster does satisfy
C7_BranchePonderee ==
    appel \in {"sm_vers_mh_raster", "plugin_sm_vers_mh_raster",
               "projette_triangles_surface"} =>
        \A c \in Cellules(FormeAgg) :
            ras_rec_pondere[c] = MoyennePondereeTrianglesFinis(val_tri, ListeDe(c))

(***************************************************************************)
(* C8.  On a raster equal to a constant C at every finite cell, the        *)
(* weighted moyenne_pixels_par_triangle returns C for every triangle with  *)
(* a finite-valued overlapping cell and the no-value marker for the        *)
(* others.  As claimed: exactly C.  As amended: C up to the rounding of    *)
(* the float operations, relative error at most 2n u / (1 - 2n u) for the  *)
(* n finite cells of the triangle, u = 2^-Precision.                       *)
(***************************************************************************)
\* the raster holds the same value C at all its finite cells
Constant(C) == \A c \in DOMAIN ras : EstFinie(ras[c]) => ras[c] = C

\* the entries of the triangle t over a finite cell with a positive area
Recouvrements(t) == SelectSeq(EntreesFinies(ras, tri_px[t]), LAMBDA p : p[3] > 0)

\* |x - C| <= C * 2n u / (1 - 2n u)
ProcheDe(x, C, n) ==
    LET ecart == IF x >= C THEN x - C ELSE C - x
    IN  /\ EstFinie(x)
        /\ ecart * (Pow2(Precision) - 2 * n) <= 2 * n * C

C8_ConstanteExacte ==
    Agrege =>
        \A C \in ValeursFinies : Constant(C) =>
            \A t \in DOMAIN tri_px :
                /\ Recouvrements(t) # << >> => val_pondere[t] = C
                /\ EntreesFinies(ras, tri_px[t]) = << >> => val_pondere[t] = Rempl

C8_ConstanteArrondie ==
    Agrege =>
        \A C \in ValeursFinies : Constant(C) =>
            \A t \in DOMAIN tri_px :
                /\ Recouvrements(t) # << >> =>
                      ProcheDe(val_pondere[t], C, Len(EntreesFinies(ras, tri_px[t])))
                /\ EntreesFinies(ras, tri_px[t]) = << >> => val_pondere[t] = Rempl

C8_Temoin ==
    /\ Agrege
    /\ \E C \in ValeursFinies :
          /\ Constant(C)
          /\ \E t \in DOMAIN tri_px :
                /\ Len(Recouvrements(t)) >= 2
                /\ val_pondere[t] # C
                /\ ProcheDe(val_pondere[t], C, Len(EntreesFinies(ras, tri_px[t])))
          /\ \E t \in DOMAIN tri_px :
                /\ tri_px[t] # << >>
                /\ EntreesFinies(ras, tri_px[t]) = << >>
                /\ val_pondere[t] = Rempl

(***************************************************************************)
(* C9.  A triangle over several cells, some of them no-data: its value is  *)
(* the mean of the finite cells only.  As claimed: the same value with     *)
(* pondere True or False, whatever the areas.  As amended: the arithmetic  *)
(* mean of the finite cells with pondere=False, their area-weighted mean   *)
(* with pondere=True (the marker when their areas sum to 0).               *)
(***************************************************************************)
\* the triangle t has a no-data cell and a finite cell
Mixte(t) ==
    /\ EntreesFinies(ras, tri_px[t]) # << >>
    /\ Len(EntreesFinies(ras, tri_px[t])) < Len(tri_px[t])

\* every cell of the triangle t overlaps it with a positive area
AiresPositives(t) == \A k \in DOMAIN tri_px[t] : tri_px[t][k][3] > 0

C10_PoidsNulsSansValeur ==
    /\ Agrege =>
          \A t \in DOMAIN tri_px :
              (EntreesFinies(ras, tri_px[t]) # << >> /\ PoidsDesFinis(ras, tri_px[t]) <= 0)
                  => val_pondere[t] = Rempl
    /\ appel = "sm_vers_mh_raster" =>
          \A c \in DOMAIN map_px :
              (TrianglesFinis(val_tri, map_px[c]) # << >>
                  /\ PoidsTrianglesFinis(val_tri, map_px[c]) <= 0)
                  => ras_rec_pondere[c] = NaN

C10_Temoin ==
    /\ Agrege
    /\ \E t \in DOMAIN tri_px :
          /\ Len(EntreesFinies(ras, tri_px[t])) >= 2
          /\ PoidsDesFinis(ras, tri_px[t]) = 0
          /\ EstFinie(val_simple[t])
          /\ val_pondere[t] = Rempl


(***************************************************************************)
(* C11.  Round trip on a raster equal to V everywhere: after the cell ->   *)
(* triangle aggregation and the triangle -> cell aggregation over the same *)
(* correspondence, a cell covered by a triangle holds V and an uncovered   *)
(* cell the no-value marker, in both modes.  As claimed: V itself.  As     *)
(* amended: V up to the rounding of the two aggregations, a relative       *)
(* 2N u / (1 - 2N u) with N = 2 MaxPaires + 2 operations, u = 2^-Precision.*)
(***************************************************************************)
\* the round trip is done
Revenu == appel = "aller_retour"

\* the value of the uniform raster
ValeurUniforme == ras[<<0, 0>>]

Assorti == Cardinality(DOMAIN val_tri) = TotalFacettes(tailles_facettes)

C12_RelectureExacte ==
    (appel = "lire_val" /\ Assorti) =>
        /\ erreur = ""
        /\ Len(relu) = Cardinality(DOMAIN val_tri)
        /\ \A k \in DOMAIN val_tri :
              relu[k + 1] = IF EstFinie(val_tri[k]) THEN val_tri[k] ELSE 0

\* what the file does keep: the value rounded to two decimals
C12_RelectureArrondie ==
    (appel = "lire_val" /\ Assorti) =>
        /\ erreur = ""
        /\ Len(relu) = Cardinality(DOMAIN val_tri)
        /\ \A k \in DOMAIN val_tri :
              relu[k + 1] = IF EstFinie(val_tri[k])
                            THEN float_de_centiemes(format_2f(val_tri[k])) ELSE 0

(***************************************************************************)
(* C13.  When the number of values of val_tri is not the number of         *)
(* triangles (of the .cir, or of the facets), ecrire_val and the two       *)
(* sm_vers_mh_raster raise an error and produce no output: no file, no     *)
(* raster.                                                                 *)
(***************************************************************************)
\* val_tri has not one value per triangle
Desaccord == Cardinality(DOMAIN val_tri) # nb_triangles

C13_DesaccordRejete ==
    Desaccord =>
        /\ appel = "ecrire_val" => (erreur # "" /\ fichier = Rien)
        /\ appel = "sm_vers_mh_raster" =>
              (erreur # "" /\ ras_rec_simple = Rien /\ ras_rec_pondere = Rien)
        /\ appel = "plugin_sm_vers_mh_raster" => (erreur # "" /\ ras_rec_plugin = Rien)

\* the same for each function apart
C13_EcrireValRejete ==
    (Desaccord /\ appel = "ecrire_val") => erreur # ""
C13_SmVersMhRejete ==
    (Desaccord /\ appel = "sm_vers_mh_raster") => erreur # ""
C13_PluginRejete ==
    (Desaccord /\ appel = "plugin_sm_vers_mh_raster") => erreur # ""

\* what the code does check: a value missing for a triangle that is read
C13_ValeurManquante ==
    /\ appel = "ecrire_val" =>
          (erreur # "" <=> Cardinality(DOMAIN val_tri) < nb_triangles)
    /\ appel = "sm_vers_mh_raster" =>
          (erreur # "" <=> \E t \in Ids(map_px) : t >= Cardinality(DOMAIN val_tri))
    /\ appel = "plugin_sm_vers_mh_raster" => erreur = ""

\* the line after the facet that starts at the line i: the next facet line,
\* or the end of the file
FinFacette(lignes, i) ==
    LET suiv == {j \in i + 1 .. Len(lignes) : lignes[j][1] = "f"}
    IN  IF suiv = {} THEN Len(lignes) + 1 ELSE Min(suiv)

\* the facet at the line i of a .val file has fewer value lines than declared
ValCourte(lignes, i) ==
    \E q \in 1 .. lignes[i][3] : i + q > Len(lignes) \/ lignes[i + q][1] # "v"

\* a .val file where a facet has fewer value lines than declared
ValTronque(lignes) == \E i \in 1 .. Len(lignes) : lignes[i][1] = "f" /\ ValCourte(lignes, i)

\* a complete block starts at the line p and ends before the line fin
BlocComplet(lignes, p, fin) ==
    /\ lignes[p][1] = "c"
    /\ p + 1 < fin
    /\ lignes[p + 1][1] = "n"
    /\ lignes[p + 1][2] >= 3
    /\ \A q \in 1 .. lignes[p + 1][2] : p + 1 + q < fin /\ lignes[p + 1 + q][1] = "xyz"

\* a .cir file where a facet is followed by fewer complete blocks than declared
CirTronque(lignes) ==
    \E i \in 1 .. Len(lignes) :
        /\ lignes[i][1] = "f"
        /\ LET fin == FinFacette(lignes, i)
           IN  Cardinality({p \in i + 1 .. fin - 1 : BlocComplet(lignes, p, fin)}) < lignes[i][3]

\* the reader raised and returned nothing
Leve == erreur # "" /\ relu = Rien

\* C14 (as stated): on a file where a facet is followed by fewer complete
\* blocks, or fewer value lines, than it declares, each of
\* lire_scene_triangle_cir, io lire_val and verif_val.lire_val raises and
\* returns nothing.
C14_LectureStricte ==
    /\ (appel = "lire_scene_triangle_cir" /\ CirTronque(fichier)) => Leve
    /\ (appel = "lire_val" /\ ValTronque(fichier)) => Leve
    /\ (appel = "verif_lire_val" /\ ValTronque(fichier)) => Leve

\* C14, lire_scene_triangle_cir alone
C14_CirStricte == (appel = "lire_scene_triangle_cir" /\ CirTronque(fichier)) => Leve

\* C14, verif_val.lire_val alone
C14_VerifStricte == (appel = "verif_lire_val" /\ ValTronque(fichier)) => Leve

\* C14, io lire_val alone: the part of the statement the code keeps
C14_LireValStricte == (appel = "lire_val" /\ ValTronque(fichier)) => Leve

\* a truncated .val file was handed to io lire_val
C14_LireValTemoin == appel = "lire_val" /\ ValTronque(fichier)

\* the point sampled lies in the cell (r0, c0) of the raster
Fenetre(r0, c0) ==
    /\ GTE[1] + c0 * Un <= point[1] /\ point[1] < GTE[1] + (c0 + 1) * Un
    /\ GTE[4] - (r0 + 1) * Un < point[2] /\ point[2] <= GTE[4] - r0 * Un

\* the window (r0, c0) .. (r0 + 1, c0 + 1) of the point sampled lies in the raster
FenetreDedans ==
    \E r0 \in 0 .. NbLignes - 2 : \E c0 \in 0 .. NbColonnes - 2 : Fenetre(r0, c0)

\* the values of the four neighbours of the point sampled
Voisins ==
    {ras[<<r0 + i, c0 + j>>] :
        r0 \in {r \in 0 .. NbLignes - 2 : \E c \in 0 .. NbColonnes - 2 : Fenetre(r, c)},
        c0 \in {c \in 0 .. NbColonnes - 2 : \E r \in 0 .. NbLignes - 2 : Fenetre(r, c)},
        i \in {0, 1}, j \in {0, 1}}

\* C15 (as stated): _echant_bilineaire returns fill when the window is not
\* inside the raster, when a neighbour is NaN or infinite, and when a
\* neighbour equals nodata; otherwise it returns an interpolated value.
C15_FillSiNonFini ==
    appel = "_echant_bilineaire" =>
        IF \/ ~FenetreDedans
           \/ \E v \in Voisins : ~isfinite(v)
           \/ nodata # Aucun /\ nodata \in Voisins
        THEN echantillon = fill
        ELSE isfinite(echantillon) /\ echantillon # fill

\* C15 with NaN in the place of non-finite: what the code does
C15_FillSiNaN ==
    appel = "_echant_bilineaire" =>
        IF \/ ~FenetreDedans
           \/ \E v \in Voisins : isnan(v)
           \/ nodata # Aucun /\ nodata \in Voisins
        THEN echantillon = fill
        ELSE echantillon # fill \/ (isnan(fill) /\ Inf \in Voisins)

\* a point whose window is inside the raster, an infinite neighbour, fill = 0.0
C15_VoisinInfini ==
    /\ appel = "_echant_bilineaire"
    /\ FenetreDedans
    /\ Inf \in Voisins
    /\ fill = 0

\* the number written in the file for the cell c
Ecrit(c) == fichier[2][c[1] * FormeAgg[2] + c[2] + 1]

\* the file holds its NODATA_value, or 9999, at the cell c
EstSentinelle(c) == Ecrit(c) = 9999 * 100 \/ (fichier[1] # Aucun /\ Ecrit(c) = fichier[1])

\* the numbers of the file as floats, no cell replaced
Brut == [c \in Cellules(FormeAgg) |-> float_de_centiemes(Ecrit(c))]

\* the entries of pixels whose cell holds no sentinel in the file
SansSentinelle(pixels) == SelectSeq(pixels, LAMBDA p : ~EstSentinelle(<<p[1], p[2]>>))

\* C16: once lire_mh_ascii has returned, every cell where the file holds
\* its NODATA_value or 9999 is NaN; and moyenne_pixels_par_triangle gives
\* each triangle the mean, plain or weighted, of the cells of its list that
\* hold no sentinel, or NaN when there is none.
C16_SentinelleEcartee ==
    /\ appel # "init" =>
          \A c \in Cellules(FormeAgg) : EstSentinelle(c) => isnan(ras[c])
    /\ Agrege =>
          \A id \in DOMAIN tri_px :
              LET L == SansSentinelle(tri_px[id])
              IN  IF L = << >>
                  THEN isnan(val_simple[id]) /\ isnan(val_pondere[id])
                  ELSE /\ val_simple[id] = MoyenneDesFinis(Brut, L)
                       /\ val_pondere[id] = MoyennePondereeDesFinis(Brut, L)

\* a triangle over a cell holding 9999 where the NODATA_value of the file is
\* another number, and over a cell holding a value
C16_Temoin ==
    /\ Agrege
    /\ fichier[1] = 200
    /\ \E id \in DOMAIN tri_px :
          /\ \E k \in DOMAIN tri_px[id] : Ecrit(<<tri_px[id][k][1], tri_px[id][k][2]>>) = 9999 * 100
          /\ \E k \in DOMAIN tri_px[id] : Ecrit(<<tri_px[id][k][1], tri_px[id][k][2]>>) = 150

\* three collinear or coincident vertices
Degenere(poly_tri) == AireDouble(poly_tri) = 0

(***************************************************************************)
(* C17.  A triangle whose vertices are collinear or coincident gets no     *)
(* entry in the map returned by mapping_surface (the call returns), and    *)
(* every other triangle is recorded under its own rank in the triangle     *)
(* array: each overlap of positive area once, under that id.               *)
(***************************************************************************)
C17_DegenereIgnore ==
    Calcule =>
        \A k \in DOMAIN tris :
            Degenere(tris[k]) =>
                /\ CellulesDe(k - 1) = {}
                /\ \A j \in DOMAIN tris \ {k} : \A c \in Cellules(Forme) :
                      IF ~Degenere(tris[j]) /\ Recouvrement(tris[j], c) > 0
                      THEN Compte(ListeDe(c), <<j - 1, Recouvrement(tris[j], c)>>) = 1
                      ELSE AiresDe(ListeDe(c), j - 1) = << >>

\* a mesh whose first triangle has collinear vertices that cross the raster,
\* and whose second triangle has entries
C17_Temoin ==
    /\ Calcule
    /\ Len(tris) = 2
    /\ Degenere(tris[1])
    /\ tris[1][1] # tris[1][2]
    /\ candidats(tris[1], GT, Forme) # {}
    /\ CellulesDe(0) = {}
    /\ CellulesDe(1) # {}

\* the pairs (id_tri, aire) of lst in increasing id_tri, the order of mapping_surface
TrieParId(lst) ==
    [k \in 1 .. Len(lst) |->
        lst[CHOOSE i \in 1 .. Len(lst) :
                Cardinality({j \in 1 .. Len(lst) : lst[j][1] < lst[i][1]}) = k - 1]]

\* the triples (lig, col, aire) of lst in the order of the cells, that of
\* inverser_mapping
TrieParCellule(lst) ==
    [k \in 1 .. Len(lst) |->
        lst[CHOOSE i \in 1 .. Len(lst) :
                Cardinality({j \in 1 .. Len(lst) :
                                AvantCle(<<lst[j][1], lst[j][2]>>, <<lst[i][1], lst[i][2]>>)}) = k - 1]]

\* the same float
Meme(x, y) == x = y

\* both without value, or two floats within the rounding of a sum of n terms
\* of each other
Voisin(x, y, n) ==
    IF EstFinie(x) /\ EstFinie(y) THEN ProcheDe(x, y, n) ELSE x = y

\* the calls after which the aggregated values of the permuted lists are known
PermuteAgrege == appel = "moyenne_pixels_par_triangle"
PermuteReconstruit == appel \in {"sm_vers_mh_raster", "projette_triangles_surface"}
PermuteProjete == appel = "projette_triangles_surface"

\* C18 (as stated): the value an aggregator gives for the lists in any order
\* is the value it gives for the lists in their original order, in both
\* modes.
C18_OrdreIndifferent ==
    /\ PermuteAgrege =>
          \A id \in DOMAIN tri_px :
              /\ Meme(val_simple[id], valeur_triangle(ras, TrieParCellule(tri_px[id]), FALSE, Rempl))
              /\ Meme(val_pondere[id], valeur_triangle(ras, TrieParCellule(tri_px[id]), TRUE, Rempl))
    /\ PermuteReconstruit =>
          \A c \in DOMAIN map_px :
              /\ Meme(ras_rec_simple[c], valeur_pixel(TrieParId(map_px[c]), val_tri, FALSE))
              /\ Meme(ras_rec_pondere[c], valeur_pixel(TrieParId(map_px[c]), val_tri, TRUE))
    /\ PermuteProjete =>
          \A c \in DOMAIN map_px :
              Meme(raster_proj[c], projette_valeur_pixel(TrieParId(map_px[c]), val_tri, NaN))

\* C18, to rounding: the value an aggregator gives for the lists in any
\* order has a value exactly when the value for the original order has one,
\* and the two are then within the rounding error of the sums of each other.
C18_OrdreArrondi ==
    /\ PermuteAgrege =>
          \A id \in DOMAIN tri_px :
              /\ Voisin(val_simple[id],
                        valeur_triangle(ras, TrieParCellule(tri_px[id]), FALSE, Rempl),
                        2 * MaxPaires + 2)
              /\ Voisin(val_pondere[id],
                        valeur_triangle(ras, TrieParCellule(tri_px[id]), TRUE, Rempl),
                        2 * MaxPaires + 2)
    /\ PermuteReconstruit =>
          \A c \in DOMAIN map_px :
              /\ Voisin(ras_rec_simple[c], valeur_pixel(TrieParId(map_px[c]), val_tri, FALSE),
                        2 * MaxPaires + 2)
              /\ Voisin(ras_rec_pondere[c], valeur_pixel(TrieParId(map_px[c]), val_tri, TRUE),
                        2 * MaxPaires + 2)
    /\ PermuteProjete =>
          \A c \in DOMAIN map_px :
              Voisin(raster_proj[c], projette_valeur_pixel(TrieParId(map_px[c]), val_tri, NaN),
                     2 * MaxPaires + 2)

\* three triangles listed under a cell in another order than that of their
\* ids, all with a value, projected
C18_Temoin ==
    /\ PermuteProjete
    /\ \E c \in DOMAIN map_px :
          /\ Len(map_px[c]) = 3
          /\ map_px[c] # TrieParId(map_px[c])
          /\ \A k \in DOMAIN map_px[c] : EstFinie(val_tri[map_px[c][k][1]])
          /\ EstFinie(raster_proj[c])

\* the call after which map_px holds the lists of mapping_barycentre
Place == appel = "mapping_barycentre"

\* the cells whose list holds the triangle id_tri, and how often in all
CellulesDuBarycentre(id_tri) == {c \in DOMAIN map_px : Compte(map_px[c], id_tri) > 0}
OccurrencesDe(id_tri) == Somme(Image(items(DOMAIN map_px), LAMBDA c : Compte(map_px[c], id_tri)))

\* the cell c, its edges included, contains the point p
Contient(c, p) ==
    /\ GT[1] + c[2] * GT[2] <= p[1] /\ p[1] <= GT[1] + (c[2] + 1) * GT[2]
    /\ GT[4] + (c[1] + 1) * GT[6] <= p[2] /\ p[2] <= GT[4] + c[1] * GT[6]

\* the point p lies outside the extent of the raster
HorsEtendue(p) ==
    \/ p[1] < Emprise[1] \/ p[1] > Emprise[3]
    \/ p[2] < Emprise[2] \/ p[2] > Emprise[4]

\* C19 (as stated): in the map of mapping_barycentre every triangle is in
\* the list of at most one cell, that cell contains its barycentre, and a
\* triangle whose barycentre is outside the extent is in no list.
C19_CelluleDuBarycentre ==
    Place =>
        \A k \in DOMAIN tris :
            /\ OccurrencesDe(k - 1) <= 1
            /\ \A c \in CellulesDuBarycentre(k - 1) :
                  c \in Cellules(Forme) /\ Contient(c, barycentre(tris[k]))
            /\ HorsEtendue(barycentre(tris[k])) => CellulesDuBarycentre(k - 1) = {}

\* C19, first part alone: every triangle in at most one list, once, under a
\* cell of the raster
C19_AuPlusUneCellule ==
    Place =>
        \A k \in DOMAIN tris :
            /\ OccurrencesDe(k - 1) <= 1
            /\ CellulesDuBarycentre(k - 1) \subseteq Cellules(Forme)

\* C19 away from the west and north edges: a barycentre inside the extent,
\* or more than a cell away from it, is placed as stated
C19_LoinDuBord ==
    Place =>
        \A k \in DOMAIN tris :
            LET b == barycentre(tris[k])
            IN  (~HorsEtendue(b) \/ b[1] <= Emprise[1] - GT[2] \/ b[2] >= Emprise[4] - GT[6]) =>
                    /\ \A c \in CellulesDuBarycentre(k - 1) : Contient(c, b)
                    /\ HorsEtendue(b) => CellulesDuBarycentre(k - 1) = {}

\* two triangles under the same cell, which contains both barycentres
C19_CellulePartagee ==
    /\ Place
    /\ \E c \in DOMAIN map_px :
          /\ Len(map_px[c]) = 2
          /\ \A k \in DOMAIN tris : Contient(c, barycentre(tris[k]))

\* the call after which val_multi holds the values of the triangles
Echantillonne == appel = "mh_vers_tri_multisample"

\* the bilinear values at the points of the plan in the triangle tris[k]
Echantillons(k) == echantillons(ras, Forme, tris[k], GTE, nodata, plan)

\* those of them that are finite
EchantillonsFinis(k) == SelectSeq(Echantillons(k), LAMBDA v : EstFinie(v))

(***************************************************************************)
(* C20.  mh_vers_tri_multisample samples each triangle at the 4 points of  *)
(* the plan '4pt' or the 7 points of the plan '7pt' and returns the mean   *)
(* of the samples that are finite, fill when none is.                      *)
(***************************************************************************)
C20_MoyenneDesFinis ==
    Echantillonne =>
        /\ DOMAIN val_multi = 0 .. Len(tris) - 1
        /\ \A k \in DOMAIN tris :
              /\ Len(Echantillons(k)) = (IF plan = "4pt" THEN 4 ELSE 7)
              /\ IF EchantillonsFinis(k) = << >>
                 THEN val_multi[k - 1] = fill
                 ELSE val_multi[k - 1] =
                          FDiv(np_sum(EchantillonsFinis(k)), Len(EchantillonsFinis(k)) * Un)

\* plan '7pt', fill = 0.0, a triangle with finite samples and others that
\* are not, and a triangle without any finite sample
C20_Temoin ==
    /\ Echantillonne
    /\ plan = "7pt"
    /\ fill = 0
    /\ \E k \in DOMAIN tris :
          /\ EchantillonsFinis(k) # << >>
          /\ Len(EchantillonsFinis(k)) < 7
          /\ val_multi[k - 1] > 0
    /\ \E k \in DOMAIN tris : EchantillonsFinis(k) = << >> /\ val_multi[k - 1] = 0


(***************************************************************************)
(* carte_erreur (plugin): the signed error map ras_pred - ras_ref.  A      *)
(* difference may be negative, which a float of this model is not: it is   *)
(* kept as the pair <<sign, magnitude>>, the magnitude being rounded as    *)
(* a float subtraction rounds it; NaN is the magnitude NaN.                *)
(***************************************************************************)
\* NaN as a signed float
nan_signe == <<1, NaN>>

\* a - b of two finite floats, of either sign
soustraction(a, b) == IF a >= b THEN <<1, FSub(a, b)>> ELSE <<0 - 1, FSub(b, a)>>

\* the mask of carte_erreur as if it tested the reference alone
carte_erreur_ref_seul(ras_ref, ras_pred) ==
    [c \in DOMAIN ras_ref |->
        IF isfinite(ras_ref[c])
        THEN IF isfinite(ras_pred[c]) THEN soustraction(ras_pred[c], ras_ref[c])
             ELSE <<1, ras_pred[c]>>
        ELSE nan_signe]

\* err = np.full(ras_ref.shape, nan); ok = isfinite(ras_ref) & isfinite(ras_pred);
\* err[ok] = ras_pred[ok] - ras_ref[ok]
carte_erreur(ras_ref, ras_pred) ==
    [c \in DOMAIN ras_ref |->
        IF isfinite(ras_ref[c]) /\ isfinite(ras_pred[c])
        THEN soustraction(ras_pred[c], ras_ref[c])
        ELSE nan_signe]

\* the shape of the two rasters compared: one row of MaxValeurs cells
FormeErreur == <<1, MaxValeurs>>

\* the cells of the rasters compared: NaN, inf, 1.0, 3.0078125
ValeursErreur == {NaN, Inf, Un, Arrondi(3 * Un + 1, 1)}

InitErreur ==
    /\ appel = "init"
    /\ SansSuite
    /\ ras \in [Cellules(FormeErreur) -> ValeursErreur]
    /\ ras_rec_plugin \in [Cellules(FormeErreur) -> ValeursErreur]
    /\ tris = Rien
    /\ map_px = Rien
    /\ nb_triangles = 0
    /\ tri_px = Rien
    /\ val_simple = Rien
    /\ val_pondere = Rien
    /\ val_tri = Rien
    /\ ras_rec_simple = Rien
    /\ ras_rec_pondere = Rien
    /\ raster_proj = Rien
    /\ SansEchant
    /\ SansFichier

\* err = carte_erreur(ras_ref, ras_pred)
CarteErreur ==
    /\ appel = "init"
    /\ appel' = "carte_erreur"
    /\ err' = carte_erreur(ras, ras_rec_plugin)
    /\ UNCHANGED <<val_tri, varsCalcul, varsFichier, varsEchant, tri_vers_pixel, mapping_pixel,
                   iter, geotransform, en_attente>>

NextErreur == CarteErreur

SpecErreur == InitErreur /\ [][NextErreur]_vars

\* C21: carte_erreur returns a field of the shape of ras_ref whose cell is
\* ras_pred - ras_ref where both inputs are finite and NaN everywhere else, and
\* the call leaves both input arrays as they were.
C21_CarteErreur ==
    /\ [](appel = "carte_erreur" =>
            /\ DOMAIN err = DOMAIN ras
            /\ \A c \in DOMAIN ras :
                  IF isfinite(ras[c]) /\ isfinite(ras_rec_plugin[c])
                  THEN /\ err[c][2] # NaN
                       /\ err[c][2] = (IF ras_rec_plugin[c] >= ras[c]
                                       THEN Arrondi(ras_rec_plugin[c] - ras[c], 1)
                                       ELSE Arrondi(ras[c] - ras_rec_plugin[c], 1))
                       /\ err[c][1] = (IF ras_rec_plugin[c] >= ras[c] THEN 1 ELSE 0 - 1)
                  ELSE err[c] = nan_signe)
    /\ [][appel' = "carte_erreur" => ras' = ras /\ ras_rec_plugin' = ras_rec_plugin]_vars

\* an error map with a negative cell, a positive cell and a NaN cell whose
\* reference is finite
C21_Temoin ==
    /\ appel = "carte_erreur"
    /\ \E c \in DOMAIN err : isfinite(err[c][2]) /\ err[c][1] < 0 /\ err[c][2] > 0
    /\ \E c \in DOMAIN err : isfinite(err[c][2]) /\ err[c][1] > 0 /\ err[c][2] > 0
    /\ \E c \in DOMAIN err : err[c] = nan_signe /\ isfinite(ras[c])

(***************************************************************************)
(* inverse_mapping (mapping.py): pixel -> triangles becomes triangle ->    *)
(* one pixel.  The dictionary is the sequence of its items in iteration    *)
(* order; the table returned maps each triangle id to its row             *)
(* (ligne, colonne).                                                       *)
(***************************************************************************)
\* the body of the inner loop as if it had no test
affecte_toujours(tvp, id_tri, cle) == [tvp EXCEPT ![id_tri] = cle]

\* if tri_vers_pixel[id_tri, 0] == -1: tri_vers_pixel[id_tri] = (ligne, colonne)
affecte(tvp, id_tri, cle) ==
    IF tvp[id_tri][1] = 0 - 1 THEN [tvp EXCEPT ![id_tri] = cle] ELSE tvp

\* for id_tri in ids_triangles
RECURSIVE inverse_liste(_, _, _)
inverse_liste(tvp, cle, ids_triangles) ==
    IF ids_triangles = << >> THEN tvp
    ELSE inverse_liste(affecte(tvp, Head(ids_triangles), cle), cle, Tail(ids_triangles))

\* for (ligne, colonne), ids_triangles in mapping_pixel.items()
RECURSIVE inverse_items(_, _)
inverse_items(tvp, its) ==
    IF its = << >> THEN tvp
    ELSE inverse_items(inverse_liste(tvp, Head(its)[1], Head(its)[2]), Tail(its))

inverse_mapping(mp, nb) ==
    inverse_items([t \in 0 .. nb - 1 |-> <<0 - 1, 0 - 1>>], mp)

\* the pixels that can be keys
ClesInverse == {<<0, 0>>, <<0, 1>>, <<1, 0>>}

\* the lists of at most MaxTri triangle ids, repetitions included
ListesInverse == UNION {[1 .. n -> IdsAgg] : n \in 0 .. MaxTri}

\* the dictionaries over the keys K, in every insertion order
RECURSIVE Dictionnaires(_)
Dictionnaires(K) ==
    {<< >>} \cup UNION {{<<<<c, l>>>> \o d : l \in ListesInverse, d \in Dictionnaires(K \ {c})} :
                          c \in K}

InitInverse ==
    /\ appel = "init"
    /\ err = Rien
    /\ tri_vers_pixel = Rien
    /\ iter = Rien
    /\ geotransform = Rien
    /\ en_attente = Rien
    /\ mapping_pixel \in Dictionnaires(ClesInverse)
    /\ nb_triangles \in {Cardinality(IdsAgg), Cardinality(IdsAgg) + 1}
    /\ tris = Rien
    /\ map_px = Rien
    /\ tri_px = Rien
    /\ ras = Rien
    /\ val_simple = Rien
    /\ val_pondere = Rien
    /\ val_tri = Rien
    /\ ras_rec_simple = Rien
    /\ ras_rec_pondere = Rien
    /\ ras_rec_plugin = Rien
    /\ raster_proj = Rien
    /\ SansEchant
    /\ SansFichier

\* tri_vers_pixel = inverse_mapping(mapping_pixel, nb_triangles)
InverseMapping ==
    /\ appel = "init"
    /\ appel' = "inverse_mapping"
    /\ tri_vers_pixel' = inverse_mapping(mapping_pixel, nb_triangles)
    /\ UNCHANGED <<val_tri, varsCalcul, varsFichier, varsEchant, err, mapping_pixel, iter,
                   geotransform, en_attente>>

NextInverse == InverseMapping

SpecInverse == InitInverse /\ [][NextInverse]_vars

(***************************************************************************)
(* C26.  inverse_mapping returns a table of nb_triangles rows in which a   *)
(* triangle that is in no list keeps (-1, -1) and a triangle that is in a  *)
(* list holds the pixel of the first item, in iteration order, whose list  *)
(* holds it: a later occurrence never replaces the first.                  *)
(***************************************************************************)
\* the ranks of the items whose list holds the triangle t
RangsDe(t) ==
    {i \in DOMAIN mapping_pixel :
        \E k \in DOMAIN mapping_pixel[i][2] : mapping_pixel[i][2][k] = t}

C26_PremierPixel ==
    appel = "inverse_mapping" =>
        /\ DOMAIN tri_vers_pixel = 0 .. nb_triangles - 1
        /\ \A t \in DOMAIN tri_vers_pixel :
              IF RangsDe(t) = {} THEN tri_vers_pixel[t] = <<0 - 1, 0 - 1>>
              ELSE \E i \in RangsDe(t) :
                      /\ \A j \in RangsDe(t) : i <= j
                      /\ tri_vers_pixel[t] = mapping_pixel[i][1]

\* a triangle in no list, and a triangle in the lists of two pixels whose
\* iteration order is not the order of the keys, twice in the first list
C26_Temoin ==
    /\ appel = "inverse_mapping"
    /\ \E t \in DOMAIN tri_vers_pixel : RangsDe(t) = {}
    /\ \E t \in DOMAIN tri_vers_pixel : \E i, j \in RangsDe(t) :
          /\ i < j
          /\ AvantCle(mapping_pixel[j][1], mapping_pixel[i][1])
          /\ Compte(mapping_pixel[i][2], t) = 2
          /\ tri_vers_pixel[t] = mapping_pixel[i][1]

(***************************************************************************)
(* C22.  Every key (row, col) of the map returned by mapping_surface has   *)
(* 0 <= row < rows and 0 <= col < cols, wherever the triangles lie: the    *)
(* range of cells visited for a triangle, derived from its bounding box,   *)
(* lies within the grid.                                                   *)
(***************************************************************************)
C22_ClesDansLaGrille ==
    Calcule =>
        /\ \A c \in DOMAIN map_px :
              /\ 0 <= c[1] /\ c[1] < Forme[1]
              /\ 0 <= c[2] /\ c[2] < Forme[2]
        /\ \A k \in DOMAIN tris : \A c \in candidats(tris[k], GT, Forme) :
              /\ 0 <= c[1] /\ c[1] < Forme[1]
              /\ 0 <= c[2] /\ c[2] < Forme[2]

\* a mesh with a triangle across an edge of the extent that has entries and
\* overlaps the cell next to the grid with positive area, and a triangle of
\* positive area beyond an edge that has none
C22_Temoin ==
    /\ Calcule
    /\ \E k \in DOMAIN tris :
          /\ ~Dedans(tris[k]) /\ ~Dehors(tris[k])
          /\ CellulesDe(k - 1) # {}
          /\ \E c \in {<<0 - 1, 0>>, <<0, 0 - 1>>, <<Forme[1], 0>>, <<0, Forme[2]>>} :
                Recouvrement(tris[k], c) > 0
    /\ \E k \in DOMAIN tris :
          /\ Dehors(tris[k]) /\ area(tris[k]) > 0
          /\ CellulesDe(k - 1) = {}

Ecrit24 == appel = "ecrire_val" /\ erreur = ""

\* the rank in the file of the header of the facet i
RangFacette(i) == 1 + i + TotalFacettes(SubSeq(tailles_facettes, 1, i - 1))

\* the value lines of the file, in the order written
LignesValeur == SelectSeq(fichier, LAMBDA l : l[1] = "v")

C24_OrdreDesFacettes ==
    Ecrit24 =>
        /\ Len(fichier) = 1 + Len(tailles_facettes) + TotalFacettes(tailles_facettes)
        /\ fichier[1][1] = "entete"
        /\ \A i \in DOMAIN tailles_facettes :
              /\ fichier[RangFacette(i)] = <<"f", i, tailles_facettes[i]>>
              /\ \A j \in 1 .. tailles_facettes[i] : fichier[RangFacette(i) + j][1] = "v"
        /\ \A k \in 0 .. Len(LignesValeur) - 1 :
              /\ k \in DOMAIN val_tri
              /\ LignesValeur[k + 1][2] = (IF val_tri[k] >= 0
                                           THEN ArrondiPair(val_tri[k] * 100, Un) ELSE 0)

\* two facets of one triangle or more written from values that differ, one of
\* them not finite and written as 0.00, with a value to spare in val_tri
C24_Temoin ==
    /\ Ecrit24
    /\ Len(tailles_facettes) = 2
    /\ tailles_facettes[1] >= 1 /\ tailles_facettes[2] >= 1
    /\ Cardinality(DOMAIN val_tri) > TotalFacettes(tailles_facettes)
    /\ ~isfinite(val_tri[0])
    /\ LignesValeur[1][2] = 0
    /\ LignesValeur[2][2] > 0

(***************************************************************************)
(* The readers, one iteration of the main loop at a time.  iter holds the  *)
(* locals of the reader between two iterations: the rank i of the next     *)
(* line (counted from 1), what was read so far, whether the loop was left  *)
(* (fini) and the exception raised.                                        *)
(***************************************************************************)
\* a line "f" without a count
LigneFacetteSeule == <<"fseul">>

\* the iteration of lire_scene_triangle_cir as if the except clause went back
\* to the line of the block
cir_iteration_sans_avance(lignes, e) ==
    LET s  == lignes[e.i]
        i1 == e.i + 1
    IN  IF s[1] = "f"
        THEN [e EXCEPT !.nb_attendu = s[3],
                       !.tailles = Append(e.tailles, s[3]),
                       !.dans_facette = TRUE,
                       !.nb_lu = 0,
                       !.i = IF i1 <= Len(lignes) /\ lignes[i1][1] = "xyz" THEN i1 + 1 ELSE i1]
        ELSE IF e.dans_facette /\ s[1] = "c"
        THEN IF i1 > Len(lignes) THEN [e EXCEPT !.i = i1, !.fini = TRUE]
             ELSE IF lignes[i1][1] # "n" THEN e
             ELSE LET r     == cir_points(lignes, i1 + 1, lignes[i1][2], << >>)
                      garde == Len(r.coords) >= 3
                      lu    == IF garde THEN e.nb_lu + 1 ELSE e.nb_lu
                      clos  == e.nb_attendu # Aucun /\ lu >= e.nb_attendu
                  IN  [e EXCEPT !.i = r.i,
                                !.tri = IF garde THEN Append(e.tri, SubSeq(r.coords, 1, 3))
                                        ELSE e.tri,
                                !.nb_lu = lu,
                                !.dans_facette = IF clos THEN FALSE ELSE e.dans_facette,
                                !.nb_attendu = IF clos THEN Aucun ELSE e.nb_attendu]
        ELSE [e EXCEPT !.i = i1]

\* one iteration of the while loop of lire_scene_triangle_cir
cir_iteration(lignes, e) ==
    LET s  == lignes[e.i]
        i1 == e.i + 1
    IN  IF s[1] = "f"
        THEN [e EXCEPT !.nb_attendu = s[3],
                       !.tailles = Append(e.tailles, s[3]),
                       !.dans_facette = TRUE,
                       !.nb_lu = 0,
                       !.i = IF i1 <= Len(lignes) /\ lignes[i1][1] = "xyz" THEN i1 + 1 ELSE i1]
        ELSE IF e.dans_facette /\ s[1] = "c"
        THEN IF i1 > Len(lignes) THEN [e EXCEPT !.i = i1, !.fini = TRUE]
             ELSE IF lignes[i1][1] # "n" THEN [e EXCEPT !.i = i1]
             ELSE LET r     == cir_points(lignes, i1 + 1, lignes[i1][2], << >>)
                      garde == Len(r.coords) >= 3
                      lu    == IF garde THEN e.nb_lu + 1 ELSE e.nb_lu
                      clos  == e.nb_attendu # Aucun /\ lu >= e.nb_attendu
                  IN  [e EXCEPT !.i = r.i,
                                !.tri = IF garde THEN Append(e.tri, SubSeq(r.coords, 1, 3))
                                        ELSE e.tri,
                                !.nb_lu = lu,
                                !.dans_facette = IF clos THEN FALSE ELSE e.dans_facette,
                                !.nb_attendu = IF clos THEN Aucun ELSE e.nb_attendu]
        ELSE [e EXCEPT !.i = i1]

\* the for loop of io_mh_sm_exchange.lire_val: reste values from the line i on
RECURSIVE lire_val_for(_, _, _, _)
lire_val_for(lignes, i, reste, valeurs) ==
    IF reste <= 0 THEN [i |-> i, valeurs |-> valeurs, erreur |-> ""]
    ELSE IF i > Len(lignes) THEN [i |-> i, valeurs |-> valeurs, erreur |-> "IndexError"]
    ELSE LET r == premier_flottant(lignes[i])
         IN  IF r.erreur # "" THEN [i |-> i, valeurs |-> valeurs, erreur |-> r.erreur]
             ELSE lire_val_for(lignes, i + 1, reste - 1, Append(valeurs, r.valeur))

\* one iteration of the while loop of io_mh_sm_exchange.lire_val
lire_val_iteration(lignes, e) ==
    LET s == lignes[e.i]
    IN  IF s[1] = "fseul" THEN [e EXCEPT !.erreur = "IndexError", !.fini = TRUE]
        ELSE IF s[1] = "f"
        THEN LET r == lire_val_for(lignes, e.i + 1, s[3], e.valeurs)
             IN  [e EXCEPT !.i = r.i, !.valeurs = r.valeurs, !.erreur = r.erreur,
                           !.fini = r.erreur # ""]
        ELSE [e EXCEPT !.i = e.i + 1]

\* the for loop of verif_val.lire_val: reste values from the line index on
RECURSIVE verif_lire_val_for(_, _, _, _)
verif_lire_val_for(lignes, index, reste, valeurs) ==
    IF reste <= 0 \/ index > Len(lignes)
    THEN [i |-> index, valeurs |-> valeurs, erreur |-> ""]
    ELSE LET r == premier_flottant(lignes[index])
         IN  IF r.erreur # "" THEN [i |-> index, valeurs |-> valeurs, erreur |-> r.erreur]
             ELSE verif_lire_val_for(lignes, index + 1, reste - 1, Append(valeurs, r.valeur))

\* one iteration of the while loop of verif_val.lire_val
verif_lire_val_iteration(lignes, e) ==
    LET texte == lignes[e.i]
    IN  IF texte[1] = "fseul" THEN [e EXCEPT !.i = e.i + 1]
        ELSE IF texte[1] = "f"
        THEN LET r == verif_lire_val_for(lignes, e.i + 1, texte[3], e.valeurs)
             IN  [e EXCEPT !.i = r.i, !.tailles = Append(e.tailles, texte[3]),
                           !.valeurs = r.valeurs, !.erreur = r.erreur,
                           !.fini = r.erreur # ""]
        ELSE [e EXCEPT !.i = e.i + 1]

(***************************************************************************)
(* Files for the readers run step by step.  A .cir file is a sequence of   *)
(* at most MaxPieces pieces: facet headers with and without the line of    *)
(* the normal, blocks of three points, of two, with a point count that is  *)
(* no number, cut after their first line, and a line of text.  A .val file *)
(* is a first line followed by at most MaxLignes lines of any kind.        *)
(***************************************************************************)
\* largest number of pieces of a .cir file
MaxPieces == 3
\* largest number of lines of a .val file after the first
MaxLignes == 3

PiecesCir ==
    { <<CirFacette(1, 0), CirXYZ(0)>>,
      <<CirFacette(1, 1)>>,
      <<CirFacette(1, 2), CirXYZ(0)>>,
      <<CirBloc(1), CirNombre(3), CirXYZ(1), CirXYZ(2), CirXYZ(3)>>,
      <<CirBloc(1), CirNombre(2), CirXYZ(1), CirXYZ(2)>>,
      <<CirBloc(1), CirTexte>>,
      <<CirBloc(1)>>,
      <<CirTexte>> }

\* the sequences of at most n pieces, laid end to end
RECURSIVE Assemblages(_)
Assemblages(n) ==
    IF n = 0 THEN {<< >>}
    ELSE {<< >>} \cup {p \o a : p \in PiecesCir, a \in Assemblages(n - 1)}

LignesVal ==
    {LigneFacette(1, 0), LigneFacette(1, 1), LigneFacette(1, 2), LigneValeur(150),
     LigneFacetteSeule, CirTexte}

FichiersVal ==
    {<<LigneEntete(1, 150, 150)>> \o l : l \in UNION {[1 .. n -> LignesVal] : n \in 0 .. MaxLignes}}

\* the reader is between two iterations of its main loop
DansBoucle == appel \in {"boucle_cir", "boucle_lire_val", "boucle_verif"}

\* the reader has returned or raised
Rendu == appel \in {"lire_scene_triangle_cir", "lire_val", "verif_lire_val"}

InitBoucle ==
    /\ appel = "init"
    /\ err = Rien
    /\ tri_vers_pixel = Rien
    /\ mapping_pixel = Rien
    /\ iter = Rien
    /\ geotransform = Rien
    /\ en_attente = Rien
    /\ fichier \in Assemblages(MaxPieces) \cup FichiersVal
    /\ tailles_facettes = Rien
    /\ relu = Rien
    /\ erreur = ""
    /\ val_tri = Rien
    /\ tris = Rien
    /\ map_px = Rien
    /\ nb_triangles = Rien
    /\ tri_px = Rien
    /\ ras = Rien
    /\ val_simple = Rien
    /\ val_pondere = Rien
    /\ ras_rec_simple = Rien
    /\ ras_rec_pondere = Rien
    /\ ras_rec_plugin = Rien
    /\ raster_proj = Rien
    /\ SansEchant

\* what no step of a reader changes
HorsBoucle == <<tailles_facettes, val_tri, fichier, varsCalcul, varsEchant, err,
                tri_vers_pixel, mapping_pixel, geotransform, en_attente>>

\* lire_scene_triangle_cir up to its while loop
CirEntree ==
    /\ appel = "init"
    /\ ~EstVal(fichier)
    /\ appel' = "boucle_cir"
    /\ iter' = [i |-> 1, dans_facette |-> FALSE, nb_attendu |-> Aucun, nb_lu |-> 0,
                tailles |-> << >>, tri |-> << >>, fini |-> FALSE, erreur |-> ""]
    /\ UNCHANGED <<relu, erreur, HorsBoucle>>

\* one iteration of its while loop
CirIteration ==
    /\ appel = "boucle_cir"
    /\ ~iter.fini
    /\ iter.i <= Len(fichier)
    /\ iter' = cir_iteration(fichier, iter)
    /\ UNCHANGED <<appel, relu, erreur, HorsBoucle>>

\* the loop is left and lire_scene_triangle_cir returns
CirRetour ==
    /\ appel = "boucle_cir"
    /\ iter.fini \/ iter.i > Len(fichier)
    /\ appel' = "lire_scene_triangle_cir"
    /\ relu' = <<iter.tailles, iter.tri>>
    /\ erreur' = ""
    /\ UNCHANGED <<iter, HorsBoucle>>

\* io_mh_sm_exchange.lire_val up to its while loop
LireValEntree ==
    /\ appel = "init"
    /\ EstVal(fichier)
    /\ appel' = "boucle_lire_val"
    /\ iter' = [i |-> 2, tailles |-> << >>, valeurs |-> << >>, fini |-> FALSE, erreur |-> ""]
    /\ UNCHANGED <<relu, erreur, HorsBoucle>>

\* one iteration of its while loop
LireValIteration ==
    /\ appel = "boucle_lire_val"
    /\ ~iter.fini
    /\ iter.i <= Len(fichier)
    /\ iter' = lire_val_iteration(fichier, iter)
    /\ UNCHANGED <<appel, relu, erreur, HorsBoucle>>

\* the loop is left: lire_val returns, or the exception leaves it
LireValRetour ==
    /\ appel = "boucle_lire_val"
    /\ iter.fini \/ iter.i > Len(fichier)
    /\ appel' = "lire_val"
    /\ relu' = IF iter.erreur = "" THEN iter.valeurs ELSE Rien
    /\ erreur' = iter.erreur
    /\ UNCHANGED <<iter, HorsBoucle>>

\* verif_val.lire_val up to its while loop
VerifEntree ==
    /\ appel = "init"
    /\ EstVal(fichier)
    /\ appel' = "boucle_verif"
    /\ iter' = [i |-> 2, tailles |-> << >>, valeurs |-> << >>, fini |-> FALSE, erreur |-> ""]
    /\ UNCHANGED <<relu, erreur, HorsBoucle>>

\* one iteration of its while loop
VerifIteration ==
    /\ appel = "boucle_verif"
    /\ ~iter.fini
    /\ iter.i <= Len(fichier)
    /\ iter' = verif_lire_val_iteration(fichier, iter)
    /\ UNCHANGED <<appel, relu, erreur, HorsBoucle>>

\* the loop is left: verif_val.lire_val returns, or the exception leaves it
VerifRetour ==
    /\ appel = "boucle_verif"
    /\ iter.fini \/ iter.i > Len(fichier)
    /\ appel' = "verif_lire_val"
    /\ relu' = IF iter.erreur = "" THEN <<iter.tailles, iter.valeurs>> ELSE Rien
    /\ erreur' = iter.erreur
    /\ UNCHANGED <<iter, HorsBoucle>>

NextBoucle ==
    \/ CirEntree \/ CirIteration \/ CirRetour
    \/ LireValEntree \/ LireValIteration \/ LireValRetour
    \/ VerifEntree \/ VerifIteration \/ VerifRetour

SpecBoucle == InitBoucle /\ [][NextBoucle]_vars

\* a reader that runs takes its next step
SpecBoucleEquitable == SpecBoucle /\ WF_vars(NextBoucle)

(***************************************************************************)
(* C27 as stated: while lire_scene_triangle_cir parses, the number of      *)
(* triangles appended since the last facet header "f<X> <N>" never exceeds *)
(* N, and the number of triangles never exceeds the sum of the sizes of    *)
(* the facets, for every N >= 0.                                           *)
(***************************************************************************)
C27_AuPlusN ==
    (appel = "boucle_cir" /\ iter.tailles # << >>) =>
        /\ iter.nb_lu <= iter.tailles[Len(iter.tailles)]
        /\ Len(iter.tri) <= TotalFacettes(iter.tailles)

\* what holds: under a header with N >= 1 at most N triangles are appended,
\* and under a header with N = 0 at most one
C27_AuPlusNSiPositif ==
    (appel = "boucle_cir" /\ iter.tailles # << >>) =>
        iter.nb_lu <= Max({1, iter.tailles[Len(iter.tailles)]})

\* every triangle returned was appended by an iteration
C27_CompteRendu ==
    appel = "lire_scene_triangle_cir" =>
        relu = <<lire_scene_triangle_cir(fichier).tailles, lire_scene_triangle_cir(fichier).tri>>

(***************************************************************************)
(* C28.  The readers end on every file: each iteration of the main loop of *)
(* lire_scene_triangle_cir, of io_mh_sm_exchange.lire_val and of           *)
(* verif_val.lire_val that raises nothing ends on a line further down than *)
(* it started, whatever path it took, and every call returns or raises.    *)
(***************************************************************************)
C28_Termine ==
    /\ [][(DansBoucle /\ appel' = appel /\ iter'.erreur = "") => iter'.i > iter.i]_vars
    /\ <>Rendu

\* lire_scene_triangle_cir has returned a triangle from a file in which a
\* facet header is followed at once by a block whose point count is no number,
\* and which holds a line of text outside any block
C28_Temoin ==
    /\ appel = "lire_scene_triangle_cir"
    /\ Len(relu[2]) >= 1
    /\ \E p \in 1 .. Len(fichier) - 2 :
          fichier[p][1] = "f" /\ fichier[p + 1][1] = "c" /\ fichier[p + 2][1] = "txt"

(***************************************************************************)
(* C29.  On the same correspondence and the same values, every id of the   *)
(* correspondence being an index of val_tri, the plugin's                  *)
(* sm_vers_mh_raster and that of io_mh_sm_exchange with pondere=False      *)
(* return the same raster, cell by cell (NaN in the same cells).           *)
(***************************************************************************)
\* both reconstructions are made
Reconstruits == appel \in {"plugin_sm_vers_mh_raster", "projette_triangles_surface"}

C29_MemeRaster ==
    (Reconstruits /\ \A t \in Ids(map_px) : t \in DOMAIN val_tri) =>
        /\ DOMAIN ras_rec_plugin = DOMAIN ras_rec_simple
        /\ \A c \in DOMAIN ras_rec_simple : ras_rec_plugin[c] = ras_rec_simple[c]

\* a cell under two triangles, one without value, that is NaN in both rasters,
\* a cell with a finite value and an uncovered cell
C29_Temoin ==
    /\ Reconstruits
    /\ \E c \in DOMAIN map_px :
          /\ Len(map_px[c]) >= 2
          /\ \E k \in DOMAIN map_px[c] : val_tri[map_px[c][k][1]] = NaN
          /\ \E k \in DOMAIN map_px[c] : EstFinie(val_tri[map_px[c][k][1]])
          /\ ras_rec_plugin[c] = NaN
    /\ \E c \in DOMAIN map_px : EstFinie(ras_rec_plugin[c])
    /\ \E c \in Cellules(FormeAgg) : c \notin DOMAIN map_px /\ ras_rec_plugin[c] = NaN

(***************************************************************************)
(* ecrire_mh_ascii, and lire_mh_ascii on the file it wrote                 *)
(* (io_mh_sm_exchange.py).  The file is the record of its six header       *)
(* fields and of its cell texts in writing order.  The entries of gt are   *)
(* floats, written in full by f"{x}" and read back as they were.  A cell   *)
(* is a whole number of ten-thousandths: the float that decimal names; a   *)
(* text of six significant digits names one float, so float(text) is the   *)
(* number written.                                                         *)
(***************************************************************************)
\* the significant digits f"{v:.6g}" keeps
ChiffresSignificatifs == 6

\* 1.0 as a cell value
Decimale == 100 * 100

\* NODATA_MH as a cell value
NodataDecimal == 9999 * Decimale

\* the number of digits of the whole number n
RECURSIVE NbChiffres(_)
NbChiffres(n) == IF n < 10 THEN 1 ELSE 1 + NbChiffres(n \div 10)

\* 10^k
RECURSIVE Puissance10(_)
Puissance10(k) == IF k = 0 THEN 1 ELSE 10 * Puissance10(k - 1)

\* f"{v:.6g}" of a finite cell value: its six leading digits, rounded
format_6g(v) ==
    IF NbChiffres(v) <= ChiffresSignificatifs THEN v
    ELSE LET q == Puissance10(NbChiffres(v) - ChiffresSignificatifs)
         IN  ArrondiPair(v, q) * q

\* the file ecrire_mh_ascii writes for the raster of shape forme
ecrire_mh_ascii(raster, forme, gt, nodata_ecrit) ==
    LET nb_lignes   == forme[1]
        nb_colonnes == forme[2]
        xll   == gt[1]
        pas   == IF gt[2] >= 0 THEN gt[2] ELSE 0 - gt[2]
        y_max == gt[4]
        yll   == FSub(y_max, Arrondi(nb_lignes * pas, 1))
        data  == [c \in Cellules(forme) |-> IF isfinite(raster[c]) THEN raster[c] ELSE nodata_ecrit]
    IN  [ncols |-> nb_colonnes, nrows |-> nb_lignes, xllcorner |-> xll, yllcorner |-> yll,
         cellsize |-> pas, nodata_value |-> nodata_ecrit,
         donnees |-> [k \in 1 .. nb_lignes * nb_colonnes |->
                         format_6g(data[<<(k - 1) \div nb_colonnes, (k - 1) % nb_colonnes>>])]]

\* what lire_mh_ascii returns for a file f that ecrire_mh_ascii wrote
lire_mh_ascii_ecrit(f) ==
    LET nb_colonnes == f.ncols
        nb_lignes   == f.nrows
        pas    == f.cellsize
        y_max  == FAdd(f.yllcorner, Arrondi(nb_lignes * pas, 1))
        forme  == <<nb_lignes, nb_colonnes>>
        brut   == reshape(f.donnees, forme)
    IN  [ras |-> [c \in Cellules(forme) |-> masque_nodata(brut[c], f.nodata_value, NodataDecimal)],
         gt |-> <<f.xllcorner, pas, 0, y_max, 0, 0 - pas>>,
         nodata |-> NodataDecimal]

\* the shape of the rasters written: one row of MaxTri cells
FormeGrille == <<1, MaxTri>>

\* the cells written: NaN, inf, 1.5, 9999, 1234.5678, 9999.0001
ValeursGrille ==
    {NaN, Inf, Decimale + Decimale \div 2, NodataDecimal, 12345678, NodataDecimal + 1}

\* the geotransforms given: cells of 1.0 under y_max = 2.0; cells of 0.5 under
\* y_max = 3.0; cells of half a unit in the last place of y_max
GTsGrille ==
    { <<0, Un, 0, 2 * Un, 0, 0 - Un>>,
      <<Un, Un \div 2, 0, 3 * Un, 0, 0 - (Un \div 2)>>,
      <<Un, 4, 0, Pow2(Precision + 2) + 8, 0, 0 - 4>> }

InitGrille ==
    /\ appel = "init"
    /\ err = Rien
    /\ tri_vers_pixel = Rien
    /\ mapping_pixel = Rien
    /\ iter = Rien
    /\ en_attente = Rien
    /\ geotransform \in GTsGrille
    /\ ras \in [Cellules(FormeGrille) -> ValeursGrille]
    /\ SansFichier
    /\ SansEchant
    /\ tris = Rien
    /\ map_px = Rien
    /\ nb_triangles = Rien
    /\ tri_px = Rien
    /\ val_simple = Rien
    /\ val_pondere = Rien
    /\ val_tri = Rien
    /\ ras_rec_simple = Rien
    /\ ras_rec_pondere = Rien
    /\ ras_rec_plugin = Rien
    /\ raster_proj = Rien

\* ecrire_mh_ascii(chemin_sortie, ras, gt), nodata left to NODATA_MH
EcrireMhAscii ==
    /\ appel = "init"
    /\ appel' = "ecrire_mh_ascii"
    /\ fichier' = ecrire_mh_ascii(ras, FormeGrille, geotransform, NodataDecimal)
    /\ UNCHANGED <<tailles_facettes, relu, erreur, val_tri, varsCalcul, varsEchant, varsSuite>>

\* ras, gt, nodata = lire_mh_ascii(chemin) on the file written
RelireMhAscii ==
    /\ appel = "ecrire_mh_ascii"
    /\ appel' = "lire_mh_ascii"
    /\ relu' = lire_mh_ascii_ecrit(fichier)
    /\ UNCHANGED <<tailles_facettes, fichier, erreur, val_tri, varsCalcul, varsEchant, varsSuite>>

NextGrille == EcrireMhAscii \/ RelireMhAscii

SpecGrille == InitGrille /\ [][NextGrille]_vars

(***************************************************************************)
(* C30 as stated: a raster written by ecrire_mh_ascii(ras, gt) and read    *)
(* back by lire_mh_ascii comes back with its shape and its geotransform,   *)
(* a cell being NaN exactly when the written cell was not finite or was    *)
(* 9999, and every other cell keeping its value.                           *)
(***************************************************************************)
\* the file written was read back
Relu30 == appel = "lire_mh_ascii"

C30_AllerRetour ==
    Relu30 =>
        /\ DOMAIN relu.ras = DOMAIN ras
        /\ relu.gt = geotransform
        /\ \A c \in DOMAIN ras :
              IF ~isfinite(ras[c]) \/ ras[c] = NodataDecimal
              THEN relu.ras[c] = NaN
              ELSE relu.ras[c] = ras[c]

\* what holds of the cells: the shape comes back, a cell that was not finite
\* or was 9999 comes back NaN, and any other cell comes back as its six
\* leading digits, NaN if these read 9999
C30_SixChiffres ==
    Relu30 =>
        /\ DOMAIN relu.ras = DOMAIN ras
        /\ \A c \in DOMAIN ras :
              IF ~isfinite(ras[c]) \/ ras[c] = NodataDecimal
              THEN relu.ras[c] = NaN
              ELSE \E q \in {1, 10, 100} :
                      /\ ras[c] < 1000000 * q
                      /\ q > 1 => ras[c] >= 100000 * q
                      /\ LET t == ArrondiPair(ras[c], q) * q
                         IN  relu.ras[c] = (IF t = NodataDecimal THEN NaN ELSE t)

\* what holds of the geotransform: xll and the cell size come back, and y_max
\* when the cell size is no smaller than its last place
C30_Geotransform ==
    Relu30 =>
        /\ relu.gt[1] = geotransform[1]
        /\ relu.gt[2] = geotransform[2]
        /\ relu.gt[6] = geotransform[6]
        /\ geotransform[2] >= Un \div 2 => relu.gt[4] = geotransform[4]

\* the three departures are reached: a cell that lost its last digits, a
\* finite cell other than 9999 that came back NaN, a y_max that moved
C30_ChiffresPerdus == Relu30 /\ \E c \in DOMAIN ras : isfinite(ras[c]) /\ isfinite(relu.ras[c]) /\ relu.ras[c] # ras[c]
C30_PrisPourNodata == Relu30 /\ \E c \in DOMAIN ras : isfinite(ras[c]) /\ ras[c] # NodataDecimal /\ relu.ras[c] = NaN
C30_YMaxDeplace == Relu30 /\ relu.gt[4] # geotransform[4]

(***************************************************************************)
(* The loop of mapping_surface, one triangle per worker.  The body of the  *)
(* loop for the triangle id_tri reads tris[id_tri] and the grid only, and  *)
(* writes the dictionary through mapping.setdefault(...).append(...)       *)
(* alone, so a worker is the sequence of the appends of its triangle, and  *)
(* the appends of the workers interleave in any order on the dictionary    *)
(* they share.  A worker at a time for all its appends is the loop over    *)
(* the triangles in another order.                                         *)
(***************************************************************************)
\* mapping[cle] = [e]: the list of the cell replaced, not extended
ajoute_ecrase(mp, cle, e) ==
    [c \in DOMAIN mp \cup {cle} |-> IF c = cle THEN <<e>> ELSE mp[c]]

\* mapping.setdefault(cle, []).append(e)
ajoute(mp, cle, e) ==
    [c \in DOMAIN mp \cup {cle} |->
        IF c = cle THEN (IF c \in DOMAIN mp THEN mp[c] ELSE << >>) \o <<e>>
        ELSE mp[c]]

\* the appends (cle, (id_tri, aire)) of the loop body for the triangle
\* id_tri, in the order of the two loops over the cells
appends(id_tri, poly_tri, gt, shape_raster) ==
    IF area(poly_tri) <= 0 THEN << >>
    ELSE Image(items(retenus(poly_tri, gt, shape_raster)),
               LAMBDA c : <<c, <<id_tri, area(intersection(poly_tri, pixel(c[1], c[2], gt)))>>>>)

\* three triangles over the same cell, triangles over several cells, and
\* triangles the loop skips
MaillagesOuvriers ==
    { <<Tri(<<2, 1>>, <<3, 1>>, <<2, 2>>), Tri(<<2, 1>>, <<3, 1>>, <<3, 2>>),
        Tri(<<2, 1>>, <<3, 2>>, <<2, 2>>)>>,
      <<Tri(<<2, 1>>, <<4, 1>>, <<2, 3>>), Tri(<<2, 1>>, <<3, 1>>, <<2, 2>>),
        Tri(<<1, 1>>, <<4, 2>>, <<1, 3>>)>>,
      <<Tri(<<2, 1>>, <<2, 3>>, <<4, 2>>), Tri(<<2, 1>>, <<3, 2>>, <<4, 3>>),
        Tri(<<2, 1>>, <<4, 1>>, <<2, 3>>)>>,
      <<Tri(<<2, 1>>, <<4, 1>>, <<2, 3>>), Tri(<<0, 1>>, <<1, 2>>, <<0, 3>>)>> }

ValeursOuvriers == {NaN, Un + 1, Un + Un \div 2}

InitOuvriers ==
    /\ appel = "init"
    /\ tris \in MaillagesOuvriers
    /\ nb_triangles = Len(tris)
    /\ val_tri \in [0 .. Len(tris) - 1 -> ValeursOuvriers]
    /\ en_attente = [id_tri \in 0 .. Len(tris) - 1 |-> appends(id_tri, tris[id_tri + 1], GT, Forme)]
    /\ map_px = Rien
    /\ tri_px = Rien
    /\ ras = Rien
    /\ val_simple = Rien
    /\ val_pondere = Rien
    /\ ras_rec_simple = Rien
    /\ ras_rec_pondere = Rien
    /\ ras_rec_plugin = Rien
    /\ raster_proj = Rien
    /\ err = Rien
    /\ tri_vers_pixel = Rien
    /\ mapping_pixel = Rien
    /\ iter = Rien
    /\ geotransform = Rien
    /\ SansEchant
    /\ SansFichier

\* every worker has made all its appends
Joints == \A id_tri \in DOMAIN en_attente : en_attente[id_tri] = << >>

\* the worker of the triangle id_tri makes its next append
Ajoute(id_tri) ==
    /\ appel \in {"init", "append"}
    /\ en_attente[id_tri] # << >>
    /\ appel' = "append"
    /\ map_px' = ajoute(map_px, Head(en_attente[id_tri])[1], Head(en_attente[id_tri])[2])
    /\ en_attente' = [en_attente EXCEPT ![id_tri] = Tail(@)]
    /\ UNCHANGED <<tris, nb_triangles, tri_px, ras, val_simple, val_pondere, val_tri,
                   ras_rec_simple, ras_rec_pondere, ras_rec_plugin, raster_proj>>
    /\ UNCHANGED <<varsFichier, varsEchant, err, tri_vers_pixel, mapping_pixel, iter,
                   geotransform>>

\* the dictionary of the workers given to the aggregators
AgregeOuvriers ==
    /\ appel \in {"init", "append"}
    /\ Joints
    /\ appel' = "sm_vers_mh_raster"
    /\ ras_rec_simple' = sm_vers_mh_raster(map_px, val_tri, Forme, FALSE)
    /\ ras_rec_pondere' = sm_vers_mh_raster(map_px, val_tri, Forme, TRUE)
    /\ raster_proj' = projette_triangles_surface(val_tri, map_px, Forme, NaN)
    /\ UNCHANGED <<tris, map_px, nb_triangles, tri_px, ras, val_simple, val_pondere, val_tri,
                   ras_rec_plugin>>
    /\ UNCHANGED HorsCalcul

NextOuvriers ==
    \/ \E id_tri \in DOMAIN en_attente : Ajoute(id_tri)
    \/ AgregeOuvriers

SpecOuvriers == InitOuvriers /\ [][NextOuvriers]_vars

\* the dictionary of the sequential loop for the mesh of the workers
Sequentiel == mapping_surface(tris, GT, Forme)

\* the lists a and b hold the same pairs, each as often
MemeMultiensemble(a, b) ==
    /\ Len(a) = Len(b)
    /\ \A k \in DOMAIN a : Compte(a, a[k]) = Compte(b, a[k])

\* once the workers are done, every cell has the pairs of the sequential
\* loop, each as often
MemesPaires ==
    /\ DOMAIN map_px = DOMAIN Sequentiel
    /\ \A c \in DOMAIN map_px : MemeMultiensemble(map_px[c], Sequentiel[c])

Agreges == appel = "sm_vers_mh_raster" /\ en_attente # Rien

\* C25 (as stated): whatever the interleaving of the appends of the workers,
\* every cell ends with the same multiset of pairs (id_tri, aire) as in the
\* sequential loop, and the aggregated values computed from the dictionary
\* of the workers are those computed from the dictionary of the loop.
C25_MemesValeurs ==
    /\ (en_attente # Rien /\ Joints) => MemesPaires
    /\ Agreges =>
          \A c \in Cellules(Forme) :
              /\ Meme(ras_rec_simple[c], sm_vers_mh_raster(Sequentiel, val_tri, Forme, FALSE)[c])
              /\ Meme(ras_rec_pondere[c], sm_vers_mh_raster(Sequentiel, val_tri, Forme, TRUE)[c])
              /\ Meme(raster_proj[c], projette_triangles_surface(val_tri, Sequentiel, Forme, NaN)[c])

\* C25, to rounding: whatever the interleaving of the appends of the
\* workers, every cell ends with the same multiset of pairs (id_tri, aire)
\* as in the sequential loop, each pair of a triangle being the area that
\* triangle shares with the cell; a cell has an aggregated value exactly
\* when it has one from the dictionary of the loop, and the two values are
\* within the rounding error of the sums of each other.
C25_ValeursArrondies ==
    /\ (en_attente # Rien /\ Joints) =>
          /\ MemesPaires
          /\ \A c \in DOMAIN map_px : \A k \in DOMAIN map_px[c] :
                map_px[c][k][2] =
                    area(intersection(tris[map_px[c][k][1] + 1], pixel(c[1], c[2], GT)))
    /\ Agreges =>
          \A c \in Cellules(Forme) :
              /\ Voisin(ras_rec_simple[c],
                        sm_vers_mh_raster(Sequentiel, val_tri, Forme, FALSE)[c],
                        2 * MaxPaires + 2)
              /\ Voisin(ras_rec_pondere[c],
                        sm_vers_mh_raster(Sequentiel, val_tri, Forme, TRUE)[c],
                        2 * MaxPaires + 2)
              /\ Voisin(raster_proj[c],
                        projette_triangles_surface(val_tri, Sequentiel, Forme, NaN)[c],
                        2 * MaxPaires + 2)

\* the workers left a cell its three pairs in another order than the loop,
\* all three triangles with a value, and the cell was given its values
C25_Temoin ==
    /\ Agreges
    /\ \E c \in DOMAIN map_px :
          /\ Len(map_px[c]) = 3
          /\ map_px[c] # Sequentiel[c]
          /\ \A k \in DOMAIN map_px[c] : EstFinie(val_tri[map_px[c][k][1]])
          /\ EstFinie(ras_rec_simple[c])
          /\ EstFinie(ras_rec_pondere[c])
=============================================================================
